---- MODULE Spec2Model ----
(***************************************************************************)
(* Hermine: query, axis-transform grouping and drop resolution.           *)
(*                                                                         *)
(* JavaScript values are records [k, n, s, a]: k is the kind, n the        *)
(* number of a "num", s the characters of a "str" (a sequence of           *)
(* one-character strings), a the elements of an "arr".                     *)
(***************************************************************************)
EXTENDS Integers, Sequences, FiniteSets, TLC

(* ------------------------------ values ------------------------------- *)

Undef == [k |-> "undef", n |-> 0, s |-> <<>>, a |-> <<>>]
Null == [k |-> "null", n |-> 0, s |-> <<>>, a |-> <<>>]
NaN == [k |-> "nan", n |-> 0, s |-> <<>>, a |-> <<>>]
Num(i) == [k |-> "num", n |-> i, s |-> <<>>, a |-> <<>>]
Str(cs) == [k |-> "str", n |-> 0, s |-> cs, a |-> <<>>]
Arr(vs) == [k |-> "arr", n |-> 0, s |-> <<>>, a |-> vs]

IsNullish(v) == v.k = "undef" \/ v.k = "null"

\* Characters in UTF-16 code unit order.
CharOrder == <<" ", ",", "-", "0", "1", "2", "3", "4", "5", "6", "7", "8", "9",
               "N", "a", "b", "d", "e", "f", "i", "l", "n", "u">>

CharCode(c) == CHOOSE i \in 1..Len(CharOrder) : CharOrder[i] = c

DigitChars == <<"0", "1", "2", "3", "4", "5", "6", "7", "8", "9">>

IsDigit(c) == \E i \in 1..10 : DigitChars[i] = c

DigitVal(c) == (CHOOSE i \in 1..10 : DigitChars[i] = c) - 1

RECURSIVE Digits(_)
Digits(i) == IF i < 10 THEN <<DigitChars[i + 1]>>
             ELSE Digits(i \div 10) \o <<DigitChars[(i % 10) + 1]>>

\* String(n) for an integer n.
NumToStr(i) == IF i < 0 THEN <<"-">> \o Digits(0 - i) ELSE Digits(i)

RECURSIVE DigitsVal(_)
DigitsVal(cs) == IF cs = <<>> THEN 0
                 ELSE 10 * DigitsVal(SubSeq(cs, 1, Len(cs) - 1)) + DigitVal(cs[Len(cs)])

AllDigits(cs) == cs # <<>> /\ \A i \in 1..Len(cs) : IsDigit(cs[i])

RECURSIVE TrimLeft(_)
TrimLeft(cs) == IF cs # <<>> /\ Head(cs) = " " THEN TrimLeft(Tail(cs)) ELSE cs

RECURSIVE TrimRight(_)
TrimRight(cs) == IF cs # <<>> /\ cs[Len(cs)] = " "
                 THEN TrimRight(SubSeq(cs, 1, Len(cs) - 1)) ELSE cs

\* String.prototype.trim
Trim(cs) == TrimRight(TrimLeft(cs))

RECURSIVE JoinStr(_, _)
\* Array.prototype.join over already stringified elements.
JoinStr(strs, sep) == IF strs = <<>> THEN <<>>
                      ELSE IF Len(strs) = 1 THEN strs[1]
                      ELSE strs[1] \o sep \o JoinStr(Tail(strs), sep)

\* String(v) of a value that is not an array.
ScalarString(v) == CASE v.k = "undef" -> <<"u", "n", "d", "e", "f", "i", "n", "e", "d">>
                     [] v.k = "null" -> <<"n", "u", "l", "l">>
                     [] v.k = "nan" -> <<"N", "a", "N">>
                     [] v.k = "num" -> NumToStr(v.n)
                     [] OTHER -> v.s

\* String(v): the canonical string form; an array joins its elements with
\* ",", null and undefined elements giving the empty string.
String(v) == IF v.k = "arr"
             THEN JoinStr([i \in 1..Len(v.a) |->
                             IF IsNullish(v.a[i]) THEN <<>> ELSE ScalarString(v.a[i])],
                          <<",">>)
             ELSE ScalarString(v)

\* SameValueZero, the equality of Set.add and Array.prototype.includes
\* (scalars only: arrays compare by reference and never occur as elements).
SameValueZero(v, w) == v.k = w.k /\ v.n = w.n /\ v.s = w.s

Includes(vs, v) == \E i \in 1..Len(vs) : SameValueZero(vs[i], v)

\* Set.prototype.add on an insertion-ordered set.
SetAdd(vs, v) == IF Includes(vs, v) THEN vs ELSE Append(vs, v)

\* The abstract string comparison a < b by code units.
RECURSIVE StrLess(_, _)
StrLess(a, b) == IF b = <<>> THEN FALSE
                 ELSE IF a = <<>> THEN TRUE
                 ELSE IF Head(a) = Head(b) THEN StrLess(Tail(a), Tail(b))
                 ELSE CharCode(Head(a)) < CharCode(Head(b))

\* The default comparator of Array.prototype.sort: undefined last, the rest
\* by string form.
DefaultLess(v, w) == IF v.k = "undef" THEN FALSE
                     ELSE IF w.k = "undef" THEN TRUE
                     ELSE StrLess(String(v), String(w))

RECURSIVE InsertSorted(_, _)
InsertSorted(sorted, v) ==
    IF sorted = <<>> THEN <<v>>
    ELSE IF DefaultLess(v, sorted[Len(sorted)])
         THEN Append(InsertSorted(SubSeq(sorted, 1, Len(sorted) - 1), v), sorted[Len(sorted)])
         ELSE Append(sorted, v)

RECURSIVE DefaultSort(_)
\* Array.prototype.sort() without comparator (stable).
DefaultSort(vs) == IF vs = <<>> THEN <<>>
                   ELSE InsertSorted(DefaultSort(SubSeq(vs, 1, Len(vs) - 1)), vs[Len(vs)])

\* Number(s) of a string: surrounding white space is ignored, the empty
\* string is 0, a decimal integer its value, anything else NaN.
StringToNumber(cs) ==
    LET t == Trim(cs)
    IN  IF t = <<>> THEN Num(0)
        ELSE IF AllDigits(t) THEN Num(DigitsVal(t))
        ELSE IF Head(t) = "-" /\ AllDigits(Tail(t)) THEN Num(0 - DigitsVal(Tail(t)))
        ELSE NaN

\* ToNumber, the coercion of the arithmetic operators.
ToNumber(v) == CASE v.k = "num" -> v
                 [] v.k = "nan" -> NaN
                 [] v.k = "undef" -> NaN
                 [] v.k = "null" -> Num(0)
                 [] OTHER -> StringToNumber(String(v))

\* parseFloat on the characters of the model: leading
\* white space, an optional "-", then the longest run of digits.
ParseFloat(cs) ==
    LET t == TrimLeft(cs)
        neg == t # <<>> /\ Head(t) = "-"
        body == IF neg THEN Tail(t) ELSE t
        RECURSIVE Prefix(_)
        Prefix(s) == IF s # <<>> /\ IsDigit(Head(s)) THEN <<Head(s)>> \o Prefix(Tail(s)) ELSE <<>>
        ds == Prefix(body)
    IN  IF ds = <<>> THEN NaN ELSE Num(IF neg THEN 0 - DigitsVal(ds) ELSE DigitsVal(ds))

(* ---------------------------- transforms ----------------------------- *)

\* A transform expression of the configuration: whether its trimmed text
\* starts with "(", what evaluating it does ("fn": yields a function,
\* "value": yields something else, "throws": fails), and the function.
ExprTens == [paren |-> TRUE, evals |-> "fn", fn |-> "tens"]      \* (v) => Math.floor(v / 10) * 10
ExprFixed == [paren |-> TRUE, evals |-> "fn", fn |-> "fixed"]    \* (v) => v.toFixed(0)
ExprNoParen == [paren |-> FALSE, evals |-> "fn", fn |-> "tens"]  \* v => Math.floor(v / 10) * 10
ExprNotFn == [paren |-> TRUE, evals |-> "value", fn |-> "null"]  \* (42)
ExprSyntax == [paren |-> TRUE, evals |-> "throws", fn |-> "null"] \* (v) => {
NoExpr == [paren |-> FALSE, evals |-> "none", fn |-> "null"]     \* key not configured

\* The null transform function.
NoFn == "null"

compileTransform(expr) ==
    IF ~expr.paren THEN NoFn
    ELSE IF expr.evals = "throws" THEN NoFn
    ELSE IF expr.evals # "fn" THEN NoFn
    ELSE expr.fn

\* Whether calling the compiled function on v throws.
Throws(fn, v) == fn = "fixed" /\ v.k \notin {"num", "nan"}

\* The compiled function's result on v, when it does not throw.
Call(fn, v) ==
    CASE fn = "tens" -> LET x == ToNumber(v)
                        IN  IF x.k = "nan" THEN NaN ELSE Num((x.n \div 10) * 10)
      [] fn = "fixed" -> IF v.k = "nan" THEN Str(<<"N", "a", "N">>) ELSE Str(NumToStr(v.n))
      [] OTHER -> v

\* applyTransform with a catch block that returns undefined.
applyTransformDroppingOnThrow(rawValue, transformFn) ==
    IF transformFn = NoFn THEN rawValue
    ELSE IF Throws(transformFn, rawValue) THEN Undef
    ELSE Call(transformFn, rawValue)

applyTransform(rawValue, transformFn) ==
    IF transformFn = NoFn THEN rawValue
    ELSE IF Throws(transformFn, rawValue) THEN rawValue
    ELSE Call(transformFn, rawValue)

\* A Map<string, any[]> in insertion order: a sequence of [key, vals].
MapHas(m, key) == \E i \in 1..Len(m) : m[i].key = key

MapGet(m, key) == m[CHOOSE i \in 1..Len(m) : m[i].key = key].vals

MapKeys(m) == {m[i].key : i \in 1..Len(m)}

RECURSIVE buildReverseMapKeepingDuplicates(_, _)
\* buildReverseMap without the includes() test.
buildReverseMapKeepingDuplicates(allRawValues, transformFn) ==
    IF allRawValues = <<>> THEN <<>>
    ELSE LET n == Len(allRawValues)
             raw == allRawValues[n]
             before == buildReverseMapKeepingDuplicates(SubSeq(allRawValues, 1, n - 1), transformFn)
             transformed == String(applyTransform(raw, transformFn))
             withKey == IF MapHas(before, transformed) THEN before
                        ELSE Append(before, [key |-> transformed, vals |-> <<>>])
         IN  [i \in 1..Len(withKey) |->
                IF withKey[i].key = transformed
                THEN [withKey[i] EXCEPT !.vals = Append(@, raw)]
                ELSE withKey[i]]

RECURSIVE buildReverseMap(_, _)
buildReverseMap(allRawValues, transformFn) ==
    IF allRawValues = <<>> THEN <<>>
    ELSE LET n == Len(allRawValues)
             raw == allRawValues[n]
             before == buildReverseMap(SubSeq(allRawValues, 1, n - 1), transformFn)
             transformed == String(applyTransform(raw, transformFn))
             withKey == IF MapHas(before, transformed) THEN before
                        ELSE Append(before, [key |-> transformed, vals |-> <<>>])
         IN  [i \in 1..Len(withKey) |->
                IF withKey[i].key = transformed /\ ~Includes(withKey[i].vals, raw)
                THEN [withKey[i] EXCEPT !.vals = Append(@, raw)]
                ELSE withKey[i]]

(* ---------------------------- query engine --------------------------- *)

\* Bound: the number of documents in the vault.
NumDocs == 2

Docs == 1..NumDocs

\* The property keys a property bag can hold. "file.name" is one flat key.
Keys == {"X", "Y", "file.name"}

\* path.split(".")
PathParts(path) == IF path = "file.name" THEN <<"file", "name">> ELSE <<path>>

\* value[part] on a property bag, and on anything else a property no
\* primitive or array of the model has.
Member(bag, part) == IF part \in Keys THEN bag[part] ELSE Undef

getPropertyValue(properties, path) ==
    LET parts == PathParts(path)
        first == Member(properties, parts[1])
    IN  IF Len(parts) = 1 THEN first ELSE Undef

\* basename of the document d.
FileName(d) == Str(<<"d">> \o NumToStr(d))

\* getDocumentData of a document whose metadata cache entry exists.
getDocumentData(d, entry) ==
    [path |-> d, properties |-> [entry.frontmatter EXCEPT !["file.name"] = FileName(d)]]

\* propValue || ""
Falsy(v) == IsNullish(v) \/ v.k = "nan" \/ (v.k = "num" /\ v.n = 0) \/ (v.k = "str" /\ v.s = <<>>)

\* String.prototype.includes
StrIncludes(hay, needle) ==
    \E i \in 1..(Len(hay) + 1) :
        i + Len(needle) - 1 <= Len(hay) /\ SubSeq(hay, i, i + Len(needle) - 1) = needle

\* The double quote character.
Quote == "\""

UpperChars == <<"A", "B", "C", "D", "E", "F", "G", "H", "I", "J", "K", "L", "M",
                "N", "O", "P", "Q", "R", "S", "T", "U", "V", "W", "X", "Y", "Z">>

LowerChars == <<"a", "b", "c", "d", "e", "f", "g", "h", "i", "j", "k", "l", "m",
                "n", "o", "p", "q", "r", "s", "t", "u", "v", "w", "x", "y", "z">>

\* String.prototype.toLowerCase, one character and a whole string.
LowerChar(c) == IF \E i \in 1..Len(UpperChars) : UpperChars[i] = c
                THEN LowerChars[CHOOSE i \in 1..Len(UpperChars) : UpperChars[i] = c]
                ELSE c

toLowerCase(cs) == [i \in 1..Len(cs) |-> LowerChar(cs[i])]

\* \s and \S of the regular expressions.
IsSpace(c) == c = " "

NonSpaceRun(cs, i, j) == i <= j /\ \A k \in i..j : ~IsSpace(cs[k])

RECURSIVE SkipSpaces(_, _)
\* \s* at position p: the position after the white space.
SkipSpaces(cs, p) == IF p <= Len(cs) /\ IsSpace(cs[p]) THEN SkipSpaces(cs, p + 1) ELSE p

\* A literal word at position p, compared without case under the i flag.
WordAt(cs, p, word, ignoreCase) ==
    /\ p + Len(word) - 1 <= Len(cs)
    /\ \A k \in 1..Len(word) :
          (IF ignoreCase THEN LowerChar(cs[p + k - 1]) ELSE cs[p + k - 1]) = word[k]

NoQuoted == [matched |-> FALSE, value |-> <<>>, next |-> 0]

\* "([^"]+)" at position p: the text up to the next quote, never empty.
QuotedAt(cs, p) ==
    IF p > Len(cs) \/ cs[p] # Quote THEN NoQuoted
    ELSE LET closing == {q \in (p + 1)..Len(cs) : cs[q] = Quote}
         IN  IF closing = {} THEN NoQuoted
             ELSE LET q == CHOOSE c \in closing : \A d \in closing : c <= d
                  IN  IF q = p + 1 THEN NoQuoted
                      ELSE [matched |-> TRUE, value |-> SubSeq(cs, p + 1, q - 1), next |-> q + 1]

NoMatch == [matched |-> FALSE, prop |-> <<>>, operator |-> <<>>, value |-> <<>>]

\* \s+contains\s+"([^"]+)" after a property that ends at position j.
ContainsRest(cs, j) ==
    LET p == SkipSpaces(cs, j + 1)
        r == p + Len(<<"c", "o", "n", "t", "a", "i", "n", "s">>)
        s == SkipSpaces(cs, r)
    IN  IF p > j + 1 /\ WordAt(cs, p, <<"c", "o", "n", "t", "a", "i", "n", "s">>, TRUE) /\ s > r
        THEN QuotedAt(cs, s)
        ELSE NoQuoted

\* \s*(!?=)\s*"([^"]+)" after a property that ends at position j.
EqualsRest(cs, j) ==
    LET p == SkipSpaces(cs, j + 1)
        operator == IF WordAt(cs, p, <<"!", "=">>, FALSE) THEN <<"!", "=">>
                    ELSE IF WordAt(cs, p, <<"=">>, FALSE) THEN <<"=">>
                    ELSE <<>>
        quoted == QuotedAt(cs, SkipSpaces(cs, p + Len(operator)))
    IN  IF operator = <<>> THEN [matched |-> FALSE, operator |-> <<>>, value |-> <<>>]
        ELSE [matched |-> quoted.matched, operator |-> operator, value |-> quoted.value]

\* String.prototype.match with a pattern that opens with (\S+): the
\* leftmost start, and from it the longest property the rest still follows.
FirstMatch(cs, Rest(_, _)) ==
    LET spans == {span \in (1..Len(cs)) \X (1..Len(cs)) :
                     NonSpaceRun(cs, span[1], span[2]) /\ Rest(cs, span[2]).matched}
    IN  IF spans = {} THEN NoMatch
        ELSE LET best == CHOOSE span \in spans :
                            \A other \in spans :
                                \/ span[1] < other[1]
                                \/ span[1] = other[1] /\ span[2] >= other[2]
                 rest == Rest(cs, best[2])
             IN  [matched |-> TRUE, prop |-> SubSeq(cs, best[1], best[2]),
                  operator |-> IF "operator" \in DOMAIN rest THEN rest.operator ELSE <<>>,
                  value |-> rest.value]

\* filter.match(/(\S+)\s+contains\s+"([^"]+)"/i)
matchContains(filter) == FirstMatch(filter, ContainsRest)

\* filter.match(/(\S+)\s*(!?=)\s*"([^"]+)"/)
matchEquals(filter) == FirstMatch(filter, EqualsRest)

\* The property key a path text names; a text that names no key of the
\* model names a property no document has.
PathName(cs) == IF cs = <<"X">> THEN "X" ELSE IF cs = <<"Y">> THEN "Y"
                ELSE IF cs = <<"f", "i", "l", "e", ".", "n", "a", "m", "e">> THEN "file.name"
                ELSE ""

\* No where filter: the field is undefined.
NoWhere == <<>>

\* evaluateFilter reading every != as =.
evaluateFilterIgnoringNot(doc, filter) ==
    LET containsMatch == matchContains(filter)
        equalsMatch == matchEquals(filter)
    IN  IF containsMatch.matched
        THEN LET propValue == getPropertyValue(doc.properties, PathName(containsMatch.prop))
             IN  IF propValue.k = "arr"
                 THEN \E i \in 1..Len(propValue.a) :
                         StrIncludes(String(propValue.a[i]), containsMatch.value)
                 ELSE StrIncludes(IF Falsy(propValue) THEN <<>> ELSE String(propValue),
                                  containsMatch.value)
        ELSE IF equalsMatch.matched
        THEN String(getPropertyValue(doc.properties, PathName(equalsMatch.prop))) = equalsMatch.value
        ELSE TRUE

evaluateFilter(doc, filter) ==
    LET containsMatch == matchContains(filter)
        equalsMatch == matchEquals(filter)
    IN  IF containsMatch.matched
        THEN LET propValue == getPropertyValue(doc.properties, PathName(containsMatch.prop))
             IN  IF propValue.k = "arr"
                 THEN \E i \in 1..Len(propValue.a) :
                         StrIncludes(String(propValue.a[i]), containsMatch.value)
                 ELSE StrIncludes(IF Falsy(propValue) THEN <<>> ELSE String(propValue),
                                  containsMatch.value)
        ELSE IF equalsMatch.matched
        THEN LET propValue == getPropertyValue(doc.properties, PathName(equalsMatch.prop))
                 isEqual == String(propValue) = equalsMatch.value
             IN  IF equalsMatch.operator = <<"!", "=">> THEN ~isEqual ELSE isEqual
        ELSE TRUE

\* The abstract relational comparison a < b.
JsLess(v, w) ==
    IF v.k \in {"str", "arr"} /\ w.k \in {"str", "arr"}
    THEN StrLess(String(v), String(w))
    ELSE LET x == ToNumber(v)
             y == ToNumber(w)
         IN  x.k = "num" /\ y.k = "num" /\ x.n < y.n

\* The comparator of sortDocuments: negative, zero or positive.
SortCompare(a, b, sort) ==
    LET aVal == getPropertyValue(a.properties, sort.by)
        bVal == getPropertyValue(b.properties, sort.by)
        comparison == IF JsLess(bVal, aVal) THEN 1 ELSE IF JsLess(aVal, bVal) THEN -1 ELSE 0
    IN  IF sort.order = "desc" THEN 0 - comparison ELSE comparison

RECURSIVE InsertDoc(_, _, _)
InsertDoc(sorted, doc, sort) ==
    IF sorted = <<>> THEN <<doc>>
    ELSE IF SortCompare(sorted[Len(sorted)], doc, sort) > 0
         THEN Append(InsertDoc(SubSeq(sorted, 1, Len(sorted) - 1), doc, sort), sorted[Len(sorted)])
         ELSE Append(sorted, doc)

RECURSIVE sortDocuments(_, _)
\* [...documents].sort(comparator): insertion from the left, as the engine
\* sorts short arrays (stable).
sortDocuments(documents, sort) ==
    IF documents = <<>> THEN <<>>
    ELSE InsertDoc(sortDocuments(SubSeq(documents, 1, Len(documents) - 1), sort),
                   documents[Len(documents)], sort)

NoSort == [by |-> "", order |-> "asc"]

\* CollectAxis with a sequence pushed as one value instead of element by
\* element.
CollectAxisWhole(axisData, properties, axis, transformFn) ==
    LET value == getPropertyValue(properties, axis)
    IN  IF axis = "" \/ IsNullish(value) THEN axisData
        ELSE [raws |-> Append(axisData.raws, value),
              labels |-> SetAdd(axisData.labels, applyTransform(value, transformFn))]

\* Lines 48-61 (and 64-77, 94-107, 108-121): what one document adds to an
\* axis's raw values and bucket set. axisData is [raws, labels].
CollectAxis(axisData, properties, axis, transformFn) ==
    LET value == getPropertyValue(properties, axis)
        pushed == IF value.k = "arr" THEN value.a ELSE <<value>>
        RECURSIVE Each(_, _)
        Each(data, vs) ==
            IF vs = <<>> THEN data
            ELSE Each([raws |-> Append(data.raws, Head(vs)),
                       labels |-> SetAdd(data.labels, applyTransform(Head(vs), transformFn))],
                      Tail(vs))
    IN  IF axis = "" \/ IsNullish(value) THEN axisData ELSE Each(axisData, pushed)

EmptyAxis == [raws |-> <<>>, labels |-> <<>>]

\* The accumulators of execute: result.documents, the two bucket sets and
\* the two raw-value arrays.
EmptyPass == [documents |-> <<>>, x |-> EmptyAxis, y |-> EmptyAxis]

\* One iteration of the loop over the source files (lines 36-79).
ProcessFile(pass, d, config, cacheOf, xTransformFn, yTransformFn) ==
    IF ~cacheOf[d].cached THEN pass
    ELSE LET docData == getDocumentData(d, cacheOf[d])
         IN  IF config.where # NoWhere /\ ~evaluateFilter(docData, config.where) THEN pass
             ELSE [documents |-> Append(pass.documents, docData),
                   x |-> CollectAxis(pass.x, docData.properties, config.xAxis, xTransformFn),
                   y |-> CollectAxis(pass.y, docData.properties, config.yAxis, yTransformFn)]

RECURSIVE PerDocumentPass(_, _, _, _, _)
PerDocumentPass(files, config, cacheOf, xTransformFn, yTransformFn) ==
    IF files = <<>> THEN EmptyPass
    ELSE ProcessFile(PerDocumentPass(SubSeq(files, 1, Len(files) - 1), config, cacheOf,
                                     xTransformFn, yTransformFn),
                     files[Len(files)], config, cacheOf, xTransformFn, yTransformFn)

\* The whole-set filter functions of the configurations.
\*   "first"  (docs) => docs.slice(0, 1)
\*   "hasY"   (docs) => docs.filter(d => d.properties.Y != null)
\*   "count"  (docs) => docs.length
\*   "throws" (docs) => docs.missing.length
FilterKinds == {"none", "first", "hasY", "count", "throws"}

\* Array.isArray(filtered) answering true for a number as well.
FilterReturnsArrayOrNumber(kind) == kind \in {"first", "hasY", "count"}

FilterReturnsArray(kind) == kind \in {"first", "hasY"}

FilterResult(kind, documents) ==
    IF kind = "first" THEN SubSeq(documents, 1, IF Len(documents) > 0 THEN 1 ELSE 0)
    ELSE SelectSeq(documents, LAMBDA d : ~IsNullish(d.properties["Y"]))

RECURSIVE RecalculateAxis(_, _, _)
\* Lines 89-122: the bucket set and the raw values of one axis, cleared and
\* collected again from the filtered documents.
RecalculateAxis(documents, axis, transformFn) ==
    IF documents = <<>> THEN EmptyAxis
    ELSE CollectAxis(RecalculateAxis(SubSeq(documents, 1, Len(documents) - 1), axis, transformFn),
                     documents[Len(documents)].properties, axis, transformFn)

\* The whole-set filter with a catch block that empties the result.
ApplyWholeSetFilterClearingOnThrow(pass, config, xTransformFn, yTransformFn) ==
    IF config.filter = "throws" THEN EmptyPass
    ELSE IF config.filter = "none" \/ ~FilterReturnsArray(config.filter) THEN pass
    ELSE LET filtered == FilterResult(config.filter, pass.documents)
         IN  [documents |-> filtered,
              x |-> RecalculateAxis(filtered, config.xAxis, xTransformFn),
              y |-> RecalculateAxis(filtered, config.yAxis, yTransformFn)]

\* Lines 82-127: the whole-set filter applied to the per-document pass.
ApplyWholeSetFilter(pass, config, xTransformFn, yTransformFn) ==
    IF config.filter = "none" \/ ~FilterReturnsArray(config.filter) THEN pass
    ELSE LET filtered == FilterResult(config.filter, pass.documents)
         IN  [documents |-> filtered,
              x |-> RecalculateAxis(filtered, config.xAxis, xTransformFn),
              y |-> RecalculateAxis(filtered, config.yAxis, yTransformFn)]

\* vault.getMarkdownFiles()
getMarkdownFiles == [i \in 1..NumDocs |-> i]

\* String.prototype.startsWith
StartsWith(cs, prefix) == Len(prefix) <= Len(cs) /\ SubSeq(cs, 1, Len(prefix)) = prefix

\* The folder each document lies in: the vault holds the folders "all"
\* and "every".
FolderOf(d) == IF d % 2 = 1 THEN <<"a", "l", "l">> ELSE <<"e", "v", "e", "r", "y">>

\* getFilesFromFolder: the documents in the folder of that path and below
\* it, none when the path names no folder.
getFilesFromFolder(folderPath) ==
    SelectSeq(getMarkdownFiles,
              LAMBDA d : FolderOf(d) = folderPath \/ StartsWith(FolderOf(d), folderPath \o <<"/">>))

\* getSourceFiles with every tag that starts with the query selecting.
getSourceFilesByPrefix(source, cacheOf) ==
    IF source \in {<<"a", "l", "l">>, <<"a", "l", "l", "e">>, <<"*">>} THEN getMarkdownFiles
    ELSE IF StartsWith(source, <<"#">>)
    THEN LET tag == toLowerCase(source)
         IN  SelectSeq(getMarkdownFiles,
                       LAMBDA d : /\ cacheOf[d].cached
                                  /\ \E i \in 1..Len(cacheOf[d].tags) :
                                        StartsWith(toLowerCase(cacheOf[d].tags[i]), tag))
    ELSE IF Len(source) >= 2 /\ source[1] = Quote /\ source[Len(source)] = Quote
    THEN getFilesFromFolder(SubSeq(source, 2, Len(source) - 1))
    ELSE getFilesFromFolder(source)

getSourceFiles(source, cacheOf) ==
    IF source \in {<<"a", "l", "l">>, <<"a", "l", "l", "e">>, <<"*">>} THEN getMarkdownFiles
    ELSE IF StartsWith(source, <<"#">>)
    THEN LET tag == toLowerCase(source)
         IN  SelectSeq(getMarkdownFiles,
                       LAMBDA d : /\ cacheOf[d].cached
                                  /\ \E i \in 1..Len(cacheOf[d].tags) :
                                        \/ toLowerCase(cacheOf[d].tags[i]) = tag
                                        \/ StartsWith(toLowerCase(cacheOf[d].tags[i]), tag \o <<"/">>))
    ELSE IF Len(source) >= 2 /\ source[1] = Quote /\ source[Len(source)] = Quote
    THEN getFilesFromFolder(SubSeq(source, 2, Len(source) - 1))
    ELSE getFilesFromFolder(source)

\* QueryEngine.execute. failAt = 0: no collaborator fails; failAt = k: the
\* load of the k-th source file throws, which ends the pass in the outer
\* catch before the raw values are attached.
execute(config, cacheOf, failAt) ==
    LET files == getSourceFiles(config.source, cacheOf)
        xTransformFn == IF config.xTransform.evals # "none"
                        THEN compileTransform(config.xTransform) ELSE NoFn
        yTransformFn == IF config.yTransform.evals # "none"
                        THEN compileTransform(config.yTransform) ELSE NoFn
        reached == IF failAt = 0 THEN files ELSE SubSeq(files, 1, failAt - 1)
        pass == PerDocumentPass(reached, config, cacheOf, xTransformFn, yTransformFn)
        final == IF failAt = 0 THEN ApplyWholeSetFilter(pass, config, xTransformFn, yTransformFn)
                 ELSE pass
    IN  [documents |-> IF failAt = 0 /\ config.sort.by # ""
                       THEN sortDocuments(final.documents, config.sort) ELSE final.documents,
         xAxisValues |-> final.x.labels,
         yAxisValues |-> final.y.labels,
         rawAttached |-> failAt = 0,
         xAxisRawValues |-> IF failAt = 0 THEN final.x.raws ELSE <<>>,
         yAxisRawValues |-> IF failAt = 0 THEN final.y.raws ELSE <<>>,
         errors |-> IF failAt # 0 THEN <<"Query error">>
                    ELSE IF config.filter = "throws" THEN <<"Filter error">>
                    ELSE <<>>]

(* ------------------------------- parser ------------------------------ *)

\* \w of the regular expressions.
IsWordChar(c) ==
    \/ IsDigit(c)
    \/ c = "_"
    \/ \E i \in 1..Len(LowerChars) : LowerChars[i] = c \/ UpperChars[i] = c

\* \b at the gap before position p.
BoundaryAt(cs, p) ==
    (p > 1 /\ p - 1 <= Len(cs) /\ IsWordChar(cs[p - 1])) # (p <= Len(cs) /\ IsWordChar(cs[p]))

\* /\bword\b/i.test(cs)
HasKeyword(cs, word) ==
    \E p \in 1..Len(cs) :
        WordAt(cs, p, word, TRUE) /\ BoundaryAt(cs, p) /\ BoundaryAt(cs, p + Len(word))

RECURSIVE SpacesBefore(_, _)
\* The start of the white space that ends right before position p.
SpacesBefore(cs, p) == IF p > 1 /\ IsSpace(cs[p - 1]) THEN SpacesBefore(cs, p - 1) ELSE p

\* The match of /,?\s*word\b/i that ends with the word at position p: it
\* starts at the white space before the word, or at a comma before that.
KeywordMatchStart(cs, s) == IF s > 1 /\ cs[s - 1] = "," THEN s - 1 ELSE s

CutKeyword(cs, p, length) ==
    SubSeq(cs, 1, KeywordMatchStart(cs, SpacesBefore(cs, p)) - 1) \o SubSeq(cs, p + length, Len(cs))

\* The least position of a set of positions.
First(positions) == CHOOSE p \in positions : \A q \in positions : p <= q

\* cs.replace(/,?\s*word\b/i, ""): the leftmost word that a boundary
\* follows is cut out together with the white space and the comma before it.
RemoveKeyword(cs, word) ==
    IF \E p \in 1..Len(cs) : WordAt(cs, p, word, TRUE) /\ BoundaryAt(cs, p + Len(word))
    THEN CutKeyword(cs, First({p \in 1..Len(cs) : WordAt(cs, p, word, TRUE) /\ BoundaryAt(cs, p + Len(word))}),
                    Len(word))
    ELSE cs

RECURSIVE SkipDigits(_, _)
\* \d* at position p: the position after the digits.
SkipDigits(cs, p) == IF p <= Len(cs) /\ IsDigit(cs[p]) THEN SkipDigits(cs, p + 1) ELSE p

\* \d+(?:\.\d+)? at position p: the position after the number, 0 if there is none.
UnsignedAt(cs, p) ==
    LET q == SkipDigits(cs, p)
        r == IF q <= Len(cs) /\ cs[q] = "." THEN SkipDigits(cs, q + 1) ELSE q
    IN  IF q = p THEN 0 ELSE IF r > q + 1 THEN r ELSE q

\* -?\d+(?:\.\d+)? at position p.
SignedAt(cs, p) == IF p <= Len(cs) /\ cs[p] = "-" THEN UnsignedAt(cs, p + 1) ELSE UnsignedAt(cs, p)

NoRange == [matched |-> FALSE, from |-> <<>>, to |-> <<>>, step |-> <<>>]

\* The pieces of the range expression: a literal text, one of two literal
\* texts, \s*, \s+, a signed or an unsigned number that is captured under a
\* name, and an optional group of pieces.
Lit(text) == [kind |-> "lit", texts |-> {text}]

OneOf(texts) == [kind |-> "lit", texts |-> texts]

Spaces == [kind |-> "spaces"]

SomeSpaces == [kind |-> "somespaces"]

Signed(name) == [kind |-> "signed", name |-> name]

Unsigned(name) == [kind |-> "unsigned", name |-> name]

Optional(group) == [kind |-> "optional", group |-> group]

\* /^\[\s*(-?\d+(?:\.\d+)?)\s*\.\.\s*(-?\d+(?:\.\d+)?)\s*(?:,\s*[Ss]tep\s+(\d+(?:\.\d+)?))?\s*\]$/
RangePattern ==
    << Lit(<<"[">>), Spaces, Signed("from"), Spaces, Lit(<<".", ".">>), Spaces, Signed("to"), Spaces,
       Optional(<< Lit(<<",">>), Spaces, OneOf({<<"S", "t", "e", "p">>, <<"s", "t", "e", "p">>}),
                   SomeSpaces, Unsigned("step") >>),
       Spaces, Lit(<<"]">>) >>

RECURSIVE Scan(_, _, _, _)
\* The pattern read from position p of cs to the end of cs: the captures
\* of the match the regular expression finds, or NoRange.
Scan(cs, p, pattern, captures) ==
    IF pattern = <<>> THEN IF p = Len(cs) + 1 THEN captures ELSE NoRange
    ELSE CASE Head(pattern).kind = "lit" ->
                IF \E text \in Head(pattern).texts : WordAt(cs, p, text, FALSE)
                THEN Scan(cs, p + Len(CHOOSE text \in Head(pattern).texts : WordAt(cs, p, text, FALSE)),
                          Tail(pattern), captures)
                ELSE NoRange
           [] Head(pattern).kind = "spaces" -> Scan(cs, SkipSpaces(cs, p), Tail(pattern), captures)
           [] Head(pattern).kind = "somespaces" ->
                IF SkipSpaces(cs, p) > p THEN Scan(cs, SkipSpaces(cs, p), Tail(pattern), captures)
                ELSE NoRange
           [] Head(pattern).kind = "signed" ->
                IF SignedAt(cs, p) = 0 THEN NoRange
                ELSE Scan(cs, SignedAt(cs, p), Tail(pattern),
                          [captures EXCEPT ![Head(pattern).name] = SubSeq(cs, p, SignedAt(cs, p) - 1)])
           [] Head(pattern).kind = "unsigned" ->
                IF UnsignedAt(cs, p) = 0 THEN NoRange
                ELSE Scan(cs, UnsignedAt(cs, p), Tail(pattern),
                          [captures EXCEPT ![Head(pattern).name] = SubSeq(cs, p, UnsignedAt(cs, p) - 1)])
           [] OTHER ->
                IF Scan(cs, p, Head(pattern).group \o Tail(pattern), captures).matched
                THEN Scan(cs, p, Head(pattern).group \o Tail(pattern), captures)
                ELSE Scan(cs, p, Tail(pattern), captures)

\* value.match of the range expression.
rangeMatch(cs) == Scan(cs, 1, RangePattern, [matched |-> TRUE, from |-> <<>>, to |-> <<>>, step |-> <<>>])

RECURSIVE Ascending(_, _, _)
\* for (v = from; v <= to + step * 1e-9; v += step) push(String(v)), on integers.
Ascending(v, to, step) ==
    IF v <= to THEN <<NumToStr(v)>> \o Ascending(v + step, to, step) ELSE <<>>

RECURSIVE Descending(_, _, _)
\* for (v = from; v >= to - step * 1e-9; v -= step) push(String(v)), on integers.
Descending(v, to, step) ==
    IF v >= to THEN <<NumToStr(v)>> \o Descending(v - step, to, step) ELSE <<>>

RECURSIVE Split(_, _)
\* String.prototype.split at a one-character separator.
Split(cs, sep) ==
    LET at == {p \in 1..Len(cs) : cs[p] = sep}
    IN  IF at = {} THEN <<cs>>
        ELSE LET p == CHOOSE q \in at : \A r \in at : q <= r
             IN  <<SubSeq(cs, 1, p - 1)>> \o Split(SubSeq(cs, p + 1, Len(cs)), sep)

\* value.split(",").map(s => s.trim()).filter(s => s)
TrimmedItems(cs) == SelectSeq([i \in 1..Len(Split(cs, ",")) |-> Trim(Split(cs, ",")[i])],
                              LAMBDA s : s # <<>>)

Exakt == <<"e", "x", "a", "k", "t">>

Exact == <<"e", "x", "a", "c", "t">>

\* The loops of lines 52-60 counting upward whatever the ends are.
expandRangeUpward(from, to, step) ==
    IF step <= 0 THEN <<NumToStr(from)>> ELSE Ascending(from, to, step)

\* The loops of lines 52-60 over the integers from, to and step.
expandRange(from, to, step) ==
    IF step <= 0 THEN <<NumToStr(from)>>
    ELSE IF from <= to THEN Ascending(from, to, step)
    ELSE Descending(from, to, step)

\* Lines 45-50: the numbers of a matched range expression, step 1 when the
\* expression names none.
RangeValues(range) ==
    expandRange(ParseFloat(range.from).n, ParseFloat(range.to).n,
                IF range.step # <<>> THEN ParseFloat(range.step).n ELSE 1)

\* Lines 41-69: the range expression or the comma-separated list.
expandValue(value, range, exact) ==
    IF range.matched THEN [values |-> RangeValues(range), exact |-> exact]
    ELSE [values |-> TrimmedItems(value), exact |-> exact]

\* value.replace(/,?\s*exakt\b/i, "").replace(/,?\s*exact\b/i, "").trim()
StripKeywords(text) == Trim(RemoveKeyword(RemoveKeyword(text, Exakt), Exact))

\* parseAxisValues on texts whose numbers hold no fraction.
parseAxisValues(text) ==
    IF HasKeyword(text, Exakt) \/ HasKeyword(text, Exact)
    THEN expandValue(StripKeywords(text), rangeMatch(StripKeywords(text)), TRUE)
    ELSE expandValue(text, rangeMatch(text), FALSE)

(* ------------------------------ renderer ----------------------------- *)

\* The bucket domain of an axis (renderMatrix): the configured values if
\* given, else the discovered labels in default sort order.
BucketDomain(given, labels) == IF given.given THEN given.values ELSE DefaultSort(labels)

\* A match that compares the raw value itself with the label.
AxisMatchWithoutTransform(raw, label, transformFn) ==
    IF raw.k = "arr"
    THEN \E i \in 1..Len(raw.a) : String(raw.a[i]) = String(label)
    ELSE String(raw) = String(label)

\* Lines 264-266: whether the raw axis value of a document matches a label.
AxisMatch(raw, label, transformFn) ==
    IF raw.k = "arr"
    THEN \E i \in 1..Len(raw.a) : String(applyTransform(raw.a[i], transformFn)) = String(label)
    ELSE String(applyTransform(raw, transformFn)) = String(label)

\* matchingDocs of the cell (xVal, yVal): the paths, in result order.
matchingDocs(documents, xVal, yVal, config, xTransformFn, yTransformFn) ==
    LET matches(doc) ==
            /\ AxisMatch(getPropertyValue(doc.properties, config.xAxis), xVal, xTransformFn)
            /\ AxisMatch(getPropertyValue(doc.properties, config.yAxis), yVal, yTransformFn)
        kept == SelectSeq(documents, matches)
    IN  [i \in 1..Len(kept) |-> kept[i].path]

\* The early return of renderUnassigned: an axis value that is undefined,
\* null or the empty string.
IsEmptyValue(raw) == IsNullish(raw) \/ (raw.k = "str" /\ raw.s = <<>>)

\* renderUnassigned: the paths of the documents of the section "Nicht
\* zugeordnet", in result order: an axis value is empty, or matches no
\* label of its axis.
renderUnassigned(documents, xValues, yValues, config, xTransformFn, yTransformFn) ==
    LET unassigned(doc) ==
            \/ IsEmptyValue(getPropertyValue(doc.properties, config.xAxis))
            \/ IsEmptyValue(getPropertyValue(doc.properties, config.yAxis))
            \/ \A xi \in 1..Len(xValues) :
                  ~AxisMatch(getPropertyValue(doc.properties, config.xAxis), xValues[xi], xTransformFn)
            \/ \A yi \in 1..Len(yValues) :
                  ~AxisMatch(getPropertyValue(doc.properties, config.yAxis), yValues[yi], yTransformFn)
        kept == SelectSeq(documents, unassigned)
    IN  [i \in 1..Len(kept) |-> kept[i].path]

\* What render() shows for a result.
RenderKind(config, result) ==
    IF Len(result.errors) > 0 THEN "errors"
    ELSE IF Len(result.documents) = 0 THEN "empty"
    ELSE IF config.yAxis = "" THEN "table"
    ELSE IF config.xAxis = "" THEN "crashed"
    ELSE "matrix"

\* No query has been executed yet.
NoResult == [documents |-> <<>>, xAxisValues |-> <<>>, yAxisValues |-> <<>>, rawAttached |-> FALSE,
             xAxisRawValues |-> <<>>, yAxisRawValues |-> <<>>, errors |-> <<>>]

NoView == [kind |-> "none", error |-> "", result |-> NoResult, xTransformFn |-> NoFn, yTransformFn |-> NoFn,
           xReverseMap |-> <<>>, yReverseMap |-> <<>>, xValues |-> <<>>, yValues |-> <<>>,
           cells |-> <<>>, unassigned |-> <<>>]

\* new MatrixRenderer(...) followed by onload(): the transforms are
\* compiled, the reverse maps built, the board rendered. A reverse map that
\* was not built (null) is the empty map.
onload(config, result) ==
    LET xFn == IF config.xTransform.evals # "none" THEN compileTransform(config.xTransform) ELSE NoFn
        yFn == IF config.yTransform.evals # "none" THEN compileTransform(config.yTransform) ELSE NoFn
        kind == RenderKind(config, result)
        xValues == IF kind = "matrix" THEN BucketDomain(config.xValues, result.xAxisValues) ELSE <<>>
        yValues == IF kind = "matrix" THEN BucketDomain(config.yValues, result.yAxisValues) ELSE <<>>
    IN  [kind |-> kind,
         error |-> "",
         result |-> result,
         xTransformFn |-> xFn,
         yTransformFn |-> yFn,
         xReverseMap |-> IF xFn # NoFn /\ result.rawAttached
                         THEN buildReverseMap(result.xAxisRawValues, xFn) ELSE <<>>,
         yReverseMap |-> IF yFn # NoFn /\ result.rawAttached
                         THEN buildReverseMap(result.yAxisRawValues, yFn) ELSE <<>>,
         xValues |-> xValues,
         yValues |-> yValues,
         cells |-> [xi \in 1..Len(xValues) |-> [yi \in 1..Len(yValues) |->
                      matchingDocs(result.documents, xValues[xi], yValues[yi], config, xFn, yFn)]],
         unassigned |-> IF kind = "matrix"
                        THEN renderUnassigned(result.documents, xValues, yValues, config, xFn, yFn)
                        ELSE <<>>]

(* ------------------------------- state ------------------------------- *)

VARIABLES block,     \* the text of the code block, line by line
          config,    \* the parsed HermineConfig of the code block
          vault,     \* per document, the frontmatter stored in its file
          cache,     \* per document, the metadata cache entry
          dirty,     \* the documents modified since the cache last indexed them
          view,      \* the current MatrixRenderer with its QueryResult
          drag,      \* currentDragDoc and the highlighted drop zones
          handlers,  \* the drop handlers started so far, running or ended
          modal,     \* the ValuePickerModal, open or closed
          watchers   \* one refreshOnCacheUpdate call each

vars == <<block, config, vault, cache, dirty, view, drag, handlers, modal, watchers>>

storeVars == <<vault, cache, dirty>>

dropVars == <<drag, handlers, modal, watchers>>

\* A frontmatter entry: the value and the list item lines left under it.
Entry(v) == [val |-> v, rest |-> <<>>]

Frontmatter(x, y) == [key \in Keys |-> IF key = "X" THEN Entry(x)
                                        ELSE IF key = "Y" THEN Entry(y) ELSE Entry(Undef)]

\* A frontmatter that declares the key "file.name" itself.
FrontmatterNamed(x, y, name) == [Frontmatter(x, y) EXCEPT !["file.name"] = Entry(name)]

\* formatYamlValue writes a string in double quotes when it is empty,
\* starts with a digit or starts or ends with a space.
IsQuoted(v) == v.k = "str" /\ ( \/ v.s = <<>>
                                \/ IsDigit(Head(v.s))
                                \/ Head(v.s) = " "
                                \/ v.s[Len(v.s)] = " " )

\* The value the metadata cache reads from an entry: a plain scalar
\* followed by left-over item lines folds into one string.
IndexedValue(entry) ==
    IF entry.rest = <<>> THEN entry.val
    ELSE Str(String(entry.val) \o
             JoinStr([i \in 1..Len(entry.rest) |-> <<" ", "-", " ">> \o String(entry.rest[i])], <<>>))

\* A quoted scalar followed by item lines is not valid YAML: the cache
\* then holds no frontmatter for the file.
InvalidYaml(fm) == \E key \in Keys : fm[key].rest # <<>> /\ IsQuoted(fm[key].val)

\* The frontmatter the metadata cache holds for a file.
ParseFrontmatter(fm) == [key \in Keys |-> IF InvalidYaml(fm) THEN Undef ELSE IndexedValue(fm[key])]

One == <<"1">>

\* The documents a vault is made of: [cached, X, Y, file.name], the last
\* one the value the frontmatter declares under the key "file.name".
DocProfiles ==
    << [cached |-> TRUE, x |-> Num(1), y |-> Num(1), name |-> Undef],
       [cached |-> TRUE, x |-> Str(One), y |-> Num(13), name |-> Undef],
       [cached |-> TRUE, x |-> Arr(<<Num(1), Num(2)>>), y |-> Arr(<<Num(1), Num(13)>>), name |-> Undef],
       [cached |-> TRUE, x |-> Arr(<<Num(13), Num(14)>>), y |-> Undef, name |-> Undef],
       [cached |-> TRUE, x |-> Null, y |-> Num(1), name |-> Undef],
       [cached |-> TRUE, x |-> Arr(<<Num(1), Str(One), Num(1)>>), y |-> Str(<<"a">>), name |-> Undef],
       [cached |-> TRUE, x |-> Num(0), y |-> Num(1), name |-> Undef],
       [cached |-> FALSE, x |-> Num(13), y |-> Num(1), name |-> Undef],
       [cached |-> TRUE, x |-> Num(2), y |-> Num(1), name |-> Str(<<"a">>)],
       [cached |-> TRUE, x |-> Str(<<>>), y |-> Num(1), name |-> Undef] >>

NoValues == [given |-> FALSE, values |-> <<>>]

BaseConfig == [source |-> <<"a", "l", "l">>, xAxis |-> "X", yAxis |-> "Y",
               xValues |-> NoValues, yValues |-> NoValues,
               xTransform |-> NoExpr, yTransform |-> NoExpr,
               xReadonly |-> FALSE, yReadonly |-> FALSE,
               xExact |-> FALSE, yExact |-> FALSE,
               where |-> NoWhere, filter |-> "none",
               sort |-> [by |-> "X", order |-> "asc"]]

\* The reserved key file.name as a configuration writes it.
FileNameKey == <<"f", "i", "l", "e", ".", "n", "a", "m", "e">>

\* The filter texts P = "v", P != "v" and P contains "s".
EqualityFilter(path, operator, v) ==
    path \o <<" ">> \o operator \o <<" ", Quote>> \o v \o <<Quote>>

ContainsFilter(path, keyword, s) ==
    path \o <<" ">> \o keyword \o <<" ", Quote>> \o s \o <<Quote>>

\* The where filters of the query specification: the three shapes, the
\* equality shapes without white space, and texts of no shape.
WhereTexts ==
    { EqualityFilter(<<"X">>, <<"=">>, One),
      EqualityFilter(<<"X">>, <<"!", "=">>, One),
      ContainsFilter(<<"X">>, <<"c", "o", "n", "t", "a", "i", "n", "s">>, One),
      ContainsFilter(<<"X">>, <<"C", "o", "n", "t", "a", "i", "n", "s">>, <<"0">>),
      <<"X", "=", Quote, "1", Quote>>,
      <<"X", "!", "=", Quote, "1", Quote>>,
      <<"g", "a", "r", "b", "a", "g", "e">>,
      <<"X", " ", "=", " ", Quote, Quote>>,
      EqualityFilter(FileNameKey, <<"=">>, <<"d", "1">>) }

\* The configurations of the query specification.
QueryConfigs ==
    {[BaseConfig EXCEPT !.xTransform = xt, !.yTransform = yt, !.filter = f]
        : xt \in {NoExpr, ExprTens, ExprFixed, ExprNoParen, ExprNotFn, ExprSyntax},
          yt \in {NoExpr, ExprTens},
          f \in FilterKinds}
    \cup {[BaseConfig EXCEPT !.where = w, !.xTransform = xt, !.sort = s]
        : w \in WhereTexts,
          xt \in {NoExpr, ExprTens},
          s \in {NoSort, [by |-> "X", order |-> "desc"]}}
    \cup {[BaseConfig EXCEPT !.yAxis = "file.name", !.sort = s]
        : s \in {NoSort, [by |-> "file.name", order |-> "desc"]}}

(* ----------------------------- code block ---------------------------- *)

\* A line of the code block after trimmed.indexOf(":"): the trimmed,
\* lower-cased key before the colon and the trimmed value after it.
Line(key, value) == [key |-> key, value |-> value]

\* No code block: the configuration is given parsed.
NoBlock == <<>>

\* The configuration before the first line is read.
EmptyConfig == [BaseConfig EXCEPT !.source = <<>>, !.xAxis = "", !.yAxis = "", !.sort = NoSort]

\* value.toLowerCase() !== "false" && value !== "0"
IsOn(value) == toLowerCase(value) # <<"f", "a", "l", "s", "e">> /\ value # <<"0">>

\* The sort key: value.split(/\s+/), the property first, then the order.
ParseSort(value) ==
    LET p == CHOOSE q \in 1..(Len(value) + 1) :
                 /\ q = Len(value) + 1 \/ IsSpace(value[q])
                 /\ \A r \in 1..(q - 1) : ~IsSpace(value[r])
        rest == SubSeq(value, SkipSpaces(value, p), Len(value))
        q == CHOOSE r \in 1..(Len(rest) + 1) :
                 /\ r = Len(rest) + 1 \/ IsSpace(rest[r])
                 /\ \A k \in 1..(r - 1) : ~IsSpace(rest[k])
    IN  [by |-> PathName(SubSeq(value, 1, p - 1)),
         order |-> IF toLowerCase(SubSeq(rest, 1, q - 1)) = <<"d", "e", "s", "c">>
                   THEN "desc" ELSE "asc"]

\* The values of an axis as the configuration holds them.
GivenValues(parsed) == [given |-> TRUE, values |-> [i \in 1..Len(parsed.values) |-> Str(parsed.values[i])]]

\* The switch over the key of one line (lines 98-224), for the keys of
\* the query; the keys of title, labels, card style, display and theme
\* set fields the query does not read.
ParseLine(cfg, line) ==
    LET key == line.key
        value == line.value
    IN  CASE key \in {"source", "from", "quelle"} -> [cfg EXCEPT !.source = value]
          [] key \in {"x", "x-axis", "x-achse", "xaxis"} -> [cfg EXCEPT !.xAxis = PathName(value)]
          [] key \in {"y", "y-axis", "y-achse", "yaxis"} -> [cfg EXCEPT !.yAxis = PathName(value)]
          [] key \in {"x-werte", "x-values", "xvalues", "x-options"} ->
                [cfg EXCEPT !.xValues = GivenValues(parseAxisValues(value)),
                            !.xExact = IF parseAxisValues(value).exact THEN TRUE ELSE @]
          [] key \in {"y-werte", "y-values", "yvalues", "y-options"} ->
                [cfg EXCEPT !.yValues = GivenValues(parseAxisValues(value)),
                            !.yExact = IF parseAxisValues(value).exact THEN TRUE ELSE @]
          [] key \in {"x-readonly", "x-gesperrt", "xreadonly"} -> [cfg EXCEPT !.xReadonly = IsOn(value)]
          [] key \in {"y-readonly", "y-gesperrt", "yreadonly"} -> [cfg EXCEPT !.yReadonly = IsOn(value)]
          [] key \in {"x-exakt", "x-exact", "xexact"} -> [cfg EXCEPT !.xExact = IsOn(value)]
          [] key \in {"y-exakt", "y-exact", "yexact"} -> [cfg EXCEPT !.yExact = IsOn(value)]
          [] key \in {"readonly", "gesperrt"} ->
                [cfg EXCEPT !.xReadonly = IsOn(value), !.yReadonly = IsOn(value)]
          [] key \in {"sort", "sortieren"} -> [cfg EXCEPT !.sort = ParseSort(value)]
          [] key \in {"where", "filter"} -> [cfg EXCEPT !.where = value]
          [] OTHER -> cfg

RECURSIVE ParseLines(_)
ParseLines(lines) ==
    IF lines = <<>> THEN EmptyConfig
    ELSE ParseLine(ParseLines(SubSeq(lines, 1, Len(lines) - 1)), lines[Len(lines)])

\* parseHermineBlock accepting a block that names no axis.
parseHermineBlockWithoutAxisCheck(lines) ==
    LET cfg == ParseLines(lines)
    IN  IF cfg.source = <<>>
        THEN [error |-> "Missing required field: source (Quelle)", config |-> cfg]
        ELSE [error |-> "", config |-> cfg]

\* parseHermineBlock: the lines are read in order, then the required
\* fields are validated (lines 228-234).
parseHermineBlock(lines) ==
    LET cfg == ParseLines(lines)
    IN  IF cfg.source = <<>>
        THEN [error |-> "Missing required field: source (Quelle)", config |-> cfg]
        ELSE IF cfg.xAxis = "" /\ cfg.yAxis = ""
        THEN [error |-> "Mindestens eine Achse muss angegeben werden (X-Achse oder Y-Achse)",
              config |-> cfg]
        ELSE [error |-> "", config |-> cfg]

\* settings.defaultSort
DefaultSortOrder == "asc"

\* Lines 60-65 of processHermineBlock: the default sort.
WithDefaultSort(cfg) ==
    IF cfg.sort = NoSort
    THEN [cfg EXCEPT !.sort = [by |-> IF cfg.xAxis # "" THEN cfg.xAxis ELSE cfg.yAxis,
                               order |-> DefaultSortOrder]]
    ELSE cfg

NoDoc == 0

NoDrag == [doc |-> NoDoc, active |-> {}]

NoModal == [open |-> FALSE, handler |-> 0, axis |-> "", groupLabel |-> <<>>,
            existingValues |-> <<>>, transformFn |-> NoFn, input |-> <<>>,
            confirmDisabled |-> TRUE, resolved |-> FALSE]

\* No drag, no drop handler, no modal, no pending refresh.
DropIdle ==
    /\ drag = NoDrag
    /\ handlers = <<>>
    /\ modal = NoModal
    /\ watchers = <<>>

InitQuery ==
    /\ block = NoBlock
    /\ config \in QueryConfigs
    /\ \E profile \in [Docs -> 1..Len(DocProfiles)] :
          /\ vault = [d \in Docs |-> FrontmatterNamed(DocProfiles[profile[d]].x, DocProfiles[profile[d]].y,
                                                       DocProfiles[profile[d]].name)]
          /\ cache = [d \in Docs |-> [cached |-> DocProfiles[profile[d]].cached,
                                      frontmatter |-> ParseFrontmatter(vault[d]),
                                      tags |-> <<>>]]
    /\ dirty = {}
    /\ view = NoView
    /\ DropIdle

\* The failures of the document loader a query can meet.
LoadFailures == 0..NumDocs

\* processHermineBlock: the query is executed and the renderer loaded.
ProcessBlock ==
    /\ view.kind = "none"
    /\ \E failAt \in LoadFailures :
          view' = onload(config, execute(config, cache, failAt))
    /\ UNCHANGED <<block, config, storeVars, dropVars>>

NextQuery == ProcessBlock

SpecQuery == InitQuery /\ [][NextQuery]_vars

(* ------------------------ block specification ----------------------- *)

\* Bounds: the largest end and the largest step of the range texts.
MaxEnd == 3

MaxStep == 2

RangeEnds == (0 - 1)..MaxEnd

\* The text [from..to, Step n].
RangeText(from, to, step) ==
    <<"[">> \o NumToStr(from) \o <<".", ".">> \o NumToStr(to)
        \o <<",", " ", "S", "t", "e", "p", " ">> \o NumToStr(step) \o <<"]">>

\* The text [from..to].
PlainRangeText(from, to) == <<"[">> \o NumToStr(from) \o <<".", ".">> \o NumToStr(to) \o <<"]">>

RangeTexts ==
    {RangeText(from, to, step) : from \in RangeEnds, to \in RangeEnds, step \in (0 - 1)..MaxStep}
    \cup {PlainRangeText(from, to) : from \in RangeEnds, to \in RangeEnds}

\* The places the keyword is written at: after the text, after the text
\* and a comma, before the text.
KeywordPlaces == {"after", "comma", "before"}

WithKeyword(text, keyword, place) ==
    CASE place = "after" -> text \o <<" ">> \o keyword
      [] place = "comma" -> text \o <<",", " ">> \o keyword
      [] OTHER -> keyword \o <<" ">> \o text

\* Axis value texts that carry no keyword.
PlainTexts ==
    { PlainRangeText(0, MaxEnd),
      RangeText(MaxEnd, 0, MaxStep),
      <<"a", ",", " ", "b">>,
      <<"i", "n", "e", "x", "a", "c", "t">>,
      <<"e", "x", "a", "c", "t", "l", "y", ",", "a">> }

Keywords == {Exact, <<"E", "x", "A", "C", "T">>, Exakt}

KeywordTexts ==
    {WithKeyword(text, keyword, place) : text \in PlainTexts, keyword \in Keywords, place \in KeywordPlaces}

AxisTexts == RangeTexts \cup PlainTexts \cup KeywordTexts

AllSource == <<"a", "l", "l">>

\* The source specifiers: the literal tokens, tag queries, folder paths.
SourceTexts ==
    { AllSource, <<"a", "l", "l", "e">>, <<"e", "v", "e", "r", "y">>, <<"*">>,
      <<"#", "p">>, <<"#", "P">>, <<"#", "p", "p">>, <<"#", "p", "/", "a">>,
      <<Quote, "a", "l", "l", Quote>>, <<"n", "o">> }

\* The tags a document can carry.
TagChoices == { <<>>, <<<<"#", "P", "/", "a">>>>, <<<<"#", "q">>, <<"#", "p", "p">>>>, <<<<"#", "p">>>> }

\* The code blocks: with and without source and axes, with axis values,
\* and with the other keys of the query.
Blocks ==
    {src \o x \o y :
        src \in {<<>>} \cup {<<Line("source", s)>> : s \in SourceTexts \cup {<<>>}},
        x \in {<<>>, <<Line("x", <<"X">>)>>},
        y \in {<<>>, <<Line("y", <<"Y">>)>>, <<Line("y-achse", <<>>)>>}}
    \cup {<<Line("quelle", AllSource), Line("x-axis", <<"X">>), Line("y", <<"Y">>), Line("x-values", text)>>
            : text \in AxisTexts}
    \cup {<<Line("from", <<"*">>), Line("xaxis", <<"X">>), Line("yaxis", <<"Y">>), extra>>
            : extra \in { Line("where", EqualityFilter(<<"X">>, <<"=">>, One)),
                          Line("filter", EqualityFilter(<<"X">>, <<"!", "=">>, One)),
                          Line("sort", <<"Y", " ", "D", "E", "S", "C">>),
                          Line("sortieren", <<"X">>),
                          Line("readonly", <<"F", "a", "l", "s", "e">>),
                          Line("x-readonly", <<"1">>),
                          Line("y-gesperrt", <<"0">>),
                          Line("y-werte", <<"1", ",", "1", "3">>),
                          Line("x-exact", <<"t", "r", "u", "e">>),
                          Line("yexact", <<"0">>),
                          Line("title", <<"a">>) }}

InitBlock ==
    /\ block \in Blocks
    /\ config = EmptyConfig
    /\ vault = [d \in Docs |-> IF d % 2 = 1 THEN Frontmatter(Num(1), Num(1))
                               ELSE Frontmatter(Num(13), Undef)]
    /\ \E tags \in [Docs -> TagChoices] :
          cache = [d \in Docs |-> [cached |-> TRUE, frontmatter |-> ParseFrontmatter(vault[d]),
                                   tags |-> tags[d]]]
    /\ dirty = {}
    /\ view = NoView
    /\ DropIdle

\* processHermineBlock from the text of the code block: the block is
\* parsed, the default sort set, the query executed and the renderer
\* loaded; an error thrown by the parser is shown in place of the board.
ProcessHermineBlock ==
    /\ view.kind = "none"
    /\ LET parsed == parseHermineBlock(block)
       IN  IF parsed.error # ""
           THEN /\ view' = [NoView EXCEPT !.kind = "hermine-error", !.error = parsed.error]
                /\ UNCHANGED config
           ELSE /\ config' = WithDefaultSort(parsed.config)
                /\ view' = onload(WithDefaultSort(parsed.config),
                                  execute(WithDefaultSort(parsed.config), cache, 0))
    /\ UNCHANGED <<block, storeVars, dropVars>>

NextBlock == ProcessHermineBlock

SpecBlock == InitBlock /\ [][NextBlock]_vars

(* ------------------------- sort specification ----------------------- *)

\* Bound: the largest number of documents that are sorted.
MaxSortLen == 3

\* The values the documents hold under the sort key: absent, and numbers.
SortKeys == {Undef, Num(1), Num(2), Num(3)}

\* result.documents before line 134: the loaded documents in vault order.
Collected == [i \in 1..Len(cache) |-> getDocumentData(i, cache[i])]

InitSort ==
    /\ block = NoBlock
    /\ \E order \in {"asc", "desc"} : config = [BaseConfig EXCEPT !.sort = [by |-> "X", order |-> order]]
    /\ \E n \in 0..MaxSortLen : \E keys \in [1..n -> SortKeys] :
          vault = [d \in 1..n |-> Frontmatter(keys[d], Undef)]
    /\ cache = [d \in 1..Len(vault) |-> [cached |-> TRUE, frontmatter |-> ParseFrontmatter(vault[d]),
                                           tags |-> <<>>]]
    /\ dirty = {}
    /\ view = NoView
    /\ DropIdle

\* Lines 134-136 of execute: result.documents = sortDocuments(result.documents, config.sort).
SortDocuments ==
    /\ view.kind = "none"
    /\ view' = [NoView EXCEPT !.kind = "sorted",
                              !.result.documents = sortDocuments(Collected, config.sort)]
    /\ UNCHANGED <<block, config, storeVars, dropVars>>

NextSort == SortDocuments

SpecSort == InitSort /\ [][NextSort]_vars

(* --------------------------- value picker ---------------------------- *)

\* parseInt(input, 10): on the characters of the model, which hold neither
\* "." nor an exponent, the integer parseFloat reads.
ParseInt(cs) == ParseFloat(cs)

parseInputValue(input) ==
    LET num == ParseFloat(input)
        int == ParseInt(input)
    IN  IF num.k = "num" /\ String(num) = input THEN num
        ELSE IF int.k = "num" /\ String(int) = input THEN int
        ELSE Str(input)

\* validateInput without the comparison with the group label: any input
\* that is not empty can be confirmed.
validateInputWithoutRemap(m) ==
    [m EXCEPT !.confirmDisabled = (Trim(m.input) = <<>>)]

\* validateInput: the confirm button is enabled exactly when the trimmed
\* input is not empty and its parsed value maps to the group label.
validateInput(m) ==
    LET raw == Trim(m.input)
        transformed == String(applyTransform(parseInputValue(raw), m.transformFn))
    IN  [m EXCEPT !.confirmDisabled = IF raw = <<>> THEN TRUE ELSE transformed # m.groupLabel]

\* The texts a user types into the input field.
InputTexts == { <<>>, <<"1", "3">>, <<"0", "1">>, <<" ", "1">>, <<"a">> }

(* -------------------------- modal lifecycle -------------------------- *)

\* A modal from its constructor to its close: chosen holds the values
\* onChoose was called with, closedBy the event that closed it.
\* ValuePickerModal after onOpen: no input, the confirm button disabled.
PickerOnOpen(groupLabel, existingValues, transformFn) ==
    [kind |-> "picker", open |-> TRUE, groupLabel |-> groupLabel,
     existingValues |-> DefaultSort(existingValues), transformFn |-> transformFn,
     rangeMin |-> 0, rangeMax |-> 0, input |-> <<>>, confirmDisabled |-> TRUE,
     resolved |-> FALSE, chosen |-> <<>>, closedBy |-> ""]

\* updateValidation of ExactValueModal: the confirm button is enabled
\* exactly for a number within [rangeMin, rangeMax].
updateValidation(m) ==
    [m EXCEPT !.confirmDisabled = \/ ParseFloat(m.input).k = "nan"
                                  \/ ParseFloat(m.input).n < m.rangeMin
                                  \/ ParseFloat(m.input).n > m.rangeMax]

\* ExactValueModal after onOpen: the input holds the cell value and
\* updateValidation has run.
ExactOnOpen(cellValue, rangeMin, rangeMax) ==
    updateValidation([kind |-> "exact", open |-> TRUE, groupLabel |-> <<>>,
                      existingValues |-> <<>>, transformFn |-> NoFn,
                      rangeMin |-> rangeMin, rangeMax |-> rangeMax, input |-> NumToStr(cellValue),
                      confirmDisabled |-> TRUE, resolved |-> FALSE, chosen |-> <<>>, closedBy |-> ""])

\* The value confirm hands to onChoose.
ChosenValue(m) == IF m.kind = "exact" THEN ParseFloat(m.input) ELSE parseInputValue(Trim(m.input))

\* onClose calling onChoose(null) whether or not confirm has resolved.
onCloseAlwaysChoosing(m) == [m EXCEPT !.chosen = Append(@, Null)]

\* onClose of both modals: onChoose(null) unless confirm has resolved.
onClose(m) == IF ~m.resolved THEN [m EXCEPT !.chosen = Append(@, Null)] ELSE m

\* Modal.close(): the modal is taken down and onClose called.
close(m) == onClose([m EXCEPT !.open = FALSE])

\* confirm of both modals: nothing while the button is disabled, else
\* resolved is set, onChoose called with the value and the modal closed.
confirm(m) ==
    IF m.confirmDisabled THEN m
    ELSE close([m EXCEPT !.resolved = TRUE, !.chosen = Append(@, ChosenValue(m))])

\* Bound: the largest number of a range of the exact modal.
MaxRange == 2

\* The modals the lifecycle specification opens.
OpenedModals ==
    {PickerOnOpen(label, existing, fn) :
        label \in {<<"0">>, <<"1", "0">>, <<"1">>},
        existing \in {<<>>, <<Num(14), Num(13)>>},
        fn \in {"tens", "fixed"}}
    \cup {ExactOnOpen(cell, min, max) : cell \in 0..MaxRange, min \in 0..MaxRange, max \in 0..MaxRange}

\* The texts of the number input of the exact modal.
NumberTexts == {<<>>, <<"-", "1">>} \cup {NumToStr(n) : n \in 0..(MaxRange + 1)}

InitModal ==
    /\ block = NoBlock
    /\ config = BaseConfig
    /\ vault = [d \in Docs |-> Frontmatter(Num(1), Num(1))]
    /\ cache = [d \in Docs |-> [cached |-> TRUE, frontmatter |-> ParseFrontmatter(vault[d]),
                                 tags |-> <<>>]]
    /\ dirty = {}
    /\ view = NoView
    /\ drag = NoDrag
    /\ handlers = <<>>
    /\ watchers = <<>>
    /\ modal \in OpenedModals

\* An input event of the text field (picker) or of the number field or
\* the slider (exact).
EditInput(text) ==
    /\ modal.open
    /\ modal' = IF modal.kind = "exact" THEN updateValidation([modal EXCEPT !.input = text])
                 ELSE validateInput([modal EXCEPT !.input = text])
    /\ UNCHANGED <<block, config, storeVars, view, drag, handlers, watchers>>

\* A click on the chip of the i-th existing value of the picker.
ClickChip(i) ==
    /\ modal.open
    /\ i \in 1..Len(modal.existingValues)
    /\ modal' = validateInput([modal EXCEPT !.input = String(modal.existingValues[i])])
    /\ UNCHANGED <<block, config, storeVars, view, drag, handlers, watchers>>

\* The confirm button with the button enabled, or Enter in any state of
\* the button.
ConfirmOrEnter ==
    /\ modal.open
    /\ modal' = [confirm(modal) EXCEPT !.closedBy = IF modal.confirmDisabled THEN @ ELSE "confirm"]
    /\ UNCHANGED <<block, config, storeVars, view, drag, handlers, watchers>>

\* The cancel button, Escape, or a dismissal of the modal.
CancelOrDismiss ==
    /\ modal.open
    /\ modal' = [close(modal) EXCEPT !.closedBy = "close"]
    /\ UNCHANGED <<block, config, storeVars, view, drag, handlers, watchers>>

NextModal ==
    \/ \E text \in InputTexts \cup NumberTexts : EditInput(text)
    \/ \E i \in 1..2 : ClickChip(i)
    \/ ConfirmOrEnter
    \/ CancelOrDismiss

SpecModal == InitModal /\ [][NextModal]_vars

(* --------------------------- property store -------------------------- *)

\* updateFrontmatterProperty with a scalar newValue: the property's line is
\* replaced (or appended); the item lines of a list it held stay below it.
updateFrontmatterProperty(content, propertyName, newValue) ==
    [content EXCEPT ![propertyName] =
        [val |-> newValue, rest |-> IF @.val.k = "arr" THEN @.val.a ELSE @.rest]]

RECURSIVE ApplyUpdates(_, _)
\* The loop of updateProperties over Object.entries(updates).
ApplyUpdates(content, updates) ==
    IF updates = <<>> THEN content
    ELSE ApplyUpdates(updateFrontmatterProperty(content, Head(updates).key, Head(updates).value),
                      Tail(updates))

\* updates[key] = value on a Record<string, any>.
SetUpdate(updates, key, value) ==
    IF \E i \in 1..Len(updates) : updates[i].key = key
    THEN [i \in 1..Len(updates) |-> IF updates[i].key = key
                                     THEN [key |-> key, value |-> value] ELSE updates[i]]
    ELSE Append(updates, [key |-> key, value |-> value])

(* --------------------------- drop protocol --------------------------- *)

\* Bound: the number of drops in a run.
MaxDrops == 2

XFn == view.xTransformFn

YFn == view.yTransformFn

\* A drop handler that has returned; outcome tells how.
Ended(outcome) ==
    [doc |-> NoDoc, xVal |-> Undef, yVal |-> Undef, pc |-> "done", updates |-> <<>>,
     content |-> Frontmatter(Undef, Undef), reads |-> 0, modifies |-> 0, outcome |-> outcome,
     stale |-> FALSE, xReverseMap |-> <<>>, yReverseMap |-> <<>>]

\* The drop handler of the cell (xVal, yVal) of the current renderer, for
\* the dragged document doc.
NewHandler(doc, xVal, yVal) ==
    [Ended("") EXCEPT !.doc = doc, !.xVal = xVal, !.yVal = yVal, !.pc = "start"]

\* A null resolution that does not return: the handler goes on with the
\* values resolved so far.
CancelledKeepsResolved(h) ==
    IF h.updates = <<>> THEN Ended("nothing") ELSE [h EXCEPT !.pc = "read"]

\* Lines 502 and 511: a null resolution returns from the handler.
Cancelled(h) ==
    [Ended("cancelled") EXCEPT !.updates = h.updates, !.reads = h.reads, !.modifies = h.modifies]

\* A catch block that starts updateProperties again.
CaughtAndRetried(h) == [h EXCEPT !.pc = "read"]

\* Lines 522-524: the catch block logs the error and the handler returns.
Caught(h) == [Ended("failed") EXCEPT !.reads = h.reads, !.modifies = h.modifies]

\* resolveDropValue without the test of transformFn: a modal is opened
\* whatever the transform.
resolveDropValueAlwaysPrompting(cellDisplayValue, transformFn) ==
    [prompt |-> TRUE, value |-> Undef]

\* resolveDropValue up to its first suspension: without a transform the
\* promise resolves at once with the cell value, else a modal is opened.
resolveDropValue(cellDisplayValue, transformFn) ==
    IF transformFn = NoFn THEN [prompt |-> FALSE, value |-> cellDisplayValue]
    ELSE [prompt |-> TRUE, value |-> Undef]

\* Lines 516-518: nothing to write ends the handler, else updateProperties.
AfterResolutions(h) ==
    IF h.updates = <<>> THEN Ended("nothing") ELSE [h EXCEPT !.pc = "read"]

\* Lines 507-514 up to the point where the handler suspends.
ResolveY(h) ==
    IF config.yReadonly THEN AfterResolutions(h)
    ELSE LET yWriteValue == resolveDropValue(h.yVal, YFn)
         IN  IF yWriteValue.prompt THEN [h EXCEPT !.pc = "awaitY"]
             ELSE IF yWriteValue.value.k = "null" THEN Cancelled(h)
             ELSE AfterResolutions([h EXCEPT !.updates = SetUpdate(@, config.yAxis, yWriteValue.value)])

\* ResolveX without the test of xReadonly.
ResolveXIgnoringReadonly(h) ==
    LET xWriteValue == resolveDropValue(h.xVal, XFn)
    IN  IF xWriteValue.prompt THEN [h EXCEPT !.pc = "awaitX"]
        ELSE ResolveY([h EXCEPT !.updates = SetUpdate(@, config.xAxis, xWriteValue.value)])

\* Lines 498-505 up to the point where the handler suspends.
ResolveX(h) ==
    IF config.xReadonly THEN ResolveY(h)
    ELSE LET xWriteValue == resolveDropValue(h.xVal, XFn)
         IN  IF xWriteValue.prompt THEN [h EXCEPT !.pc = "awaitX"]
             ELSE IF xWriteValue.value.k = "null" THEN Cancelled(h)
             ELSE ResolveY([h EXCEPT !.updates = SetUpdate(@, config.xAxis, xWriteValue.value)])

\* The reverse maps of the renderer the handler h belongs to.
MapsOf(h) == IF h.stale THEN [x |-> h.xReverseMap, y |-> h.yReverseMap]
             ELSE [x |-> view.xReverseMap, y |-> view.yReverseMap]

\* reverseMap?.get(String(cellDisplayValue)) || []
Candidates(map, cellDisplayValue) ==
    IF MapHas(map, String(cellDisplayValue)) THEN MapGet(map, String(cellDisplayValue)) ELSE <<>>

\* this.existingValues.sort() in onOpen sorts the array the map holds.
SortEntry(map, key) ==
    [i \in 1..Len(map) |-> IF map[i].key = key
                           THEN [map[i] EXCEPT !.vals = DefaultSort(@)] ELSE map[i]]

\* The modal resolveDropValue opens for the handler hid suspended at h.pc.
OpenModal(hid, h) ==
    LET axis == IF h.pc = "awaitX" THEN "x" ELSE "y"
        cell == IF axis = "x" THEN h.xVal ELSE h.yVal
        map == IF axis = "x" THEN MapsOf(h).x ELSE MapsOf(h).y
    IN  [open |-> TRUE, handler |-> hid, axis |-> axis, groupLabel |-> String(cell),
         existingValues |-> DefaultSort(Candidates(map, cell)),
         transformFn |-> IF axis = "x" THEN XFn ELSE YFn,
         input |-> <<>>, confirmDisabled |-> TRUE, resolved |-> FALSE]

\* The reverse maps of the handler's renderer once its modal has opened.
MapsAfter(h) ==
    LET maps == MapsOf(h)
    IN  IF h.pc = "awaitX" THEN [maps EXCEPT !.x = SortEntry(@, String(h.xVal))]
        ELSE IF h.pc = "awaitY" THEN [maps EXCEPT !.y = SortEntry(@, String(h.yVal))]
        ELSE maps

\* The handler hid has run to h: a modal opens if it awaits one.
Suspend(hid, h) ==
    LET held == IF h.stale
                THEN [h EXCEPT !.xReverseMap = MapsAfter(h).x, !.yReverseMap = MapsAfter(h).y]
                ELSE h
    IN  /\ handlers' = IF hid > Len(handlers) THEN Append(handlers, held)
                       ELSE [handlers EXCEPT ![hid] = held]
        /\ modal' = IF h.pc \in {"awaitX", "awaitY"} THEN OpenModal(hid, h) ELSE NoModal
        /\ view' = IF h.stale THEN view
                   ELSE [view EXCEPT !.xReverseMap = MapsAfter(h).x, !.yReverseMap = MapsAfter(h).y]

\* Lines 345-366: the cells highlighted as reachable for the dragged
\* document.
DropZones(doc) ==
    LET docX == getPropertyValue(doc.properties, config.xAxis)
        docY == getPropertyValue(doc.properties, config.yAxis)
        docXStr == String(applyTransform(docX, XFn))
        yKnown == docY.k # "undef"
        docYStr == String(applyTransform(docY, YFn))
    IN  {c \in (1..Len(view.xValues)) \X (1..Len(view.yValues)) :
            /\ ~config.xReadonly \/ String(view.xValues[c[1]]) = docXStr
            /\ ~config.yReadonly \/ (yKnown /\ String(view.yValues[c[2]]) = docYStr)}

\* A picker that leaves the board behind it open to the pointer.
BoardReachableBehindModal == TRUE

\* ValuePickerModal extends Modal: an open modal covers the board, whose
\* cards and cells then receive no pointer event.
BoardReachable == ~modal.open

\* dragstart on the card of the i-th document of the result.
DragStart(i) ==
    /\ view.kind = "matrix"
    /\ BoardReachable
    /\ drag.doc = NoDoc
    /\ Len(handlers) < MaxDrops
    /\ ~(config.xReadonly /\ config.yReadonly)
    /\ drag' = [doc |-> view.result.documents[i].path,
                active |-> DropZones(view.result.documents[i])]
    /\ UNCHANGED <<block, config, storeVars, view, handlers, modal, watchers>>

\* dragend on the dragged card after a drag that ended on no drop zone.
DragEnd ==
    /\ drag.doc # NoDoc
    /\ drag' = NoDrag
    /\ UNCHANGED <<block, config, storeVars, view, handlers, modal, watchers>>

\* drop on the cell (xi, yi): the handler runs until it suspends. The
\* browser fires dragend in the task that fired drop, so the drag is over
\* before the handler resumes.
Drop(xi, yi) ==
    /\ view.kind = "matrix"
    /\ BoardReachable
    /\ drag.doc # NoDoc
    /\ <<xi, yi>> \in drag.active
    /\ Len(handlers) < MaxDrops
    /\ Suspend(Len(handlers) + 1,
               ResolveX(NewHandler(drag.doc, view.xValues[xi], view.yValues[yi])))
    /\ drag' = NoDrag
    /\ UNCHANGED <<block, config, storeVars, watchers>>

\* An input event with the field holding text.
ModalInput(text) ==
    /\ modal.open
    /\ modal' = validateInput([modal EXCEPT !.input = text])
    /\ UNCHANGED <<block, config, storeVars, view, drag, handlers, watchers>>

\* A click on the chip of the i-th existing value.
ChipClick(i) ==
    /\ modal.open
    /\ i \in 1..Len(modal.existingValues)
    /\ modal' = validateInput([modal EXCEPT !.input = String(modal.existingValues[i])])
    /\ UNCHANGED <<block, config, storeVars, view, drag, handlers, watchers>>

\* confirm(): the button or Enter, with the button enabled. The handler
\* resumes with the parsed value.
ModalConfirm ==
    /\ modal.open
    /\ ~modal.confirmDisabled
    /\ LET hid == modal.handler
           h == handlers[hid]
           parsed == parseInputValue(Trim(modal.input))
           key == IF modal.axis = "x" THEN config.xAxis ELSE config.yAxis
           resumed == [h EXCEPT !.updates = SetUpdate(@, key, parsed)]
       IN  Suspend(hid, IF modal.axis = "x" THEN ResolveY(resumed) ELSE AfterResolutions(resumed))
    /\ UNCHANGED <<block, config, storeVars, drag, watchers>>

\* close() without confirm (cancel button, Escape, dismissal): onClose
\* answers null and the handler returns.
ModalClose ==
    /\ modal.open
    /\ Suspend(modal.handler, Cancelled(handlers[modal.handler]))
    /\ UNCHANGED <<block, config, storeVars, drag, watchers>>

\* await this.app.vault.read(file) in updateProperties ends.
VaultRead(hid, ok) ==
    /\ hid \in 1..Len(handlers)
    /\ handlers[hid].pc = "read"
    /\ LET h == handlers[hid]
       IN  handlers' = [handlers EXCEPT ![hid] =
              IF ok THEN [h EXCEPT !.pc = "modify", !.content = vault[h.doc], !.reads = @ + 1]
              ELSE Caught([h EXCEPT !.reads = @ + 1])]
    /\ UNCHANGED <<block, config, storeVars, view, drag, modal, watchers>>

\* await this.app.vault.modify(file, content) ends.
VaultModify(hid, ok) ==
    /\ hid \in 1..Len(handlers)
    /\ handlers[hid].pc = "modify"
    /\ LET h == handlers[hid]
       IN  IF ok
           THEN /\ vault' = [vault EXCEPT ![h.doc] = ApplyUpdates(h.content, h.updates)]
                /\ dirty' = dirty \cup {h.doc}
                /\ handlers' = [handlers EXCEPT ![hid] = [h EXCEPT !.pc = "modified", !.modifies = @ + 1]]
           ELSE /\ UNCHANGED <<vault, dirty>>
                /\ handlers' = [handlers EXCEPT ![hid] = Caught([h EXCEPT !.modifies = @ + 1])]
    /\ UNCHANGED <<block, config, cache, view, drag, modal, watchers>>

\* maxWait of refreshOnCacheUpdate, in milliseconds.
MaxWait == 2000

\* refreshOnCacheUpdate(file): the listener is registered and the timer set.
NewWatcher(doc) ==
    [path |-> doc, listening |-> TRUE, timer |-> MaxWait, refreshes |-> 0, by |-> ""]

\* cleanup without clearTimeout: the listener is removed, the timer keeps
\* running.
cleanupKeepingTimer(w) == [w EXCEPT !.listening = FALSE]

\* cleanup(): the listener is removed and the timer cleared.
cleanup(w) == [w EXCEPT !.listening = FALSE, !.timer = 0]

\* The handler resumes after updateProperties and calls refreshOnCacheUpdate.
Register(hid) ==
    /\ hid \in 1..Len(handlers)
    /\ handlers[hid].pc = "modified"
    /\ handlers' = [handlers EXCEPT ![hid] = Ended("written")]
    /\ watchers' = Append(watchers, NewWatcher(handlers[hid].doc))
    /\ UNCHANGED <<block, config, storeVars, view, drag, modal>>

\* The running handlers keep the renderer a refresh replaced.
Outlive(h) ==
    IF h.pc = "done" \/ h.stale THEN h
    ELSE [h EXCEPT !.stale = TRUE, !.xReverseMap = view.xReverseMap, !.yReverseMap = view.yReverseMap]

\* onRefresh: the query is executed again and a new renderer replaces the
\* current one. The document loader does not fail during a refresh.
Refresh(cacheOf) ==
    /\ view' = onload(config, execute(config, cacheOf, 0))
    /\ handlers' = [hid \in 1..Len(handlers) |-> Outlive(handlers[hid])]
    /\ drag' = NoDrag

\* The metadata cache indexes the modified file d and emits "changed".
CacheChanged(d) ==
    /\ d \in dirty
    /\ dirty' = dirty \ {d}
    /\ cache' = [cache EXCEPT ![d].frontmatter = ParseFrontmatter(vault[d])]
    /\ LET hit == {w \in 1..Len(watchers) : watchers[w].listening /\ watchers[w].path = d}
       IN  /\ watchers' = [w \in 1..Len(watchers) |->
                             IF w \in hit
                             THEN [cleanup(watchers[w]) EXCEPT !.refreshes = @ + 1, !.by = "changed"]
                             ELSE watchers[w]]
           /\ IF hit = {} THEN UNCHANGED <<view, handlers, drag>>
              ELSE Refresh(cache')
    /\ UNCHANGED <<block, config, vault, modal>>

\* The timer of the watcher w fires.
Timeout(w) ==
    /\ w \in 1..Len(watchers)
    /\ watchers[w].timer > 0
    /\ watchers' = [watchers EXCEPT ![w] = [cleanup(@) EXCEPT !.refreshes = @ + 1, !.by = "timeout"]]
    /\ Refresh(cache)
    /\ UNCHANGED <<block, config, storeVars, modal>>

\* The configurations of the drop specification: each axis readonly or
\* not, with or without a transform, and the two axes on one property.
DropConfigs ==
    {[BaseConfig EXCEPT !.xReadonly = xr, !.yReadonly = yr, !.xTransform = xt, !.yTransform = yt]
        : xr \in BOOLEAN, yr \in BOOLEAN, xt \in {NoExpr, ExprTens}, yt \in {NoExpr, ExprTens}}
    \cup {[BaseConfig EXCEPT !.xTransform = ExprSyntax, !.yTransform = yt] : yt \in {NoExpr, ExprTens}}
    \cup {[BaseConfig EXCEPT !.yAxis = "X", !.xReadonly = xr, !.xTransform = t, !.yTransform = t]
        : xr \in BOOLEAN, t \in {NoExpr, ExprTens}}

\* The configuration of a code block whose x-values are a range with the
\* keyword exact: source: all, x: X, y: Y, x-values: [0..2] exact.
ExactConfig ==
    WithDefaultSort(parseHermineBlock(
        << Line("source", AllSource), Line("x", <<"X">>), Line("y", <<"Y">>),
           Line("x-values", <<"[", "0", ".", ".", "2", "]", " ", "e", "x", "a", "c", "t">>) >>).config)

\* The vault of the drop specification.
DropVault ==
    [d \in Docs |-> IF d % 2 = 1 THEN Frontmatter(Num(1), Num(1))
                    ELSE Frontmatter(Arr(<<Num(13), Num(14)>>), Num(13))]

Init ==
    /\ block = NoBlock
    /\ config \in DropConfigs \cup {ExactConfig}
    /\ vault = DropVault
    /\ cache = [d \in Docs |-> [cached |-> TRUE, frontmatter |-> ParseFrontmatter(vault[d]),
                                 tags |-> <<>>]]
    /\ dirty = {}
    /\ view = NoView
    /\ DropIdle

Next ==
    \/ ProcessBlock
    \/ \E i \in 1..NumDocs : i <= Len(view.result.documents) /\ DragStart(i)
    \/ DragEnd
    \/ \E xi \in 1..Len(view.xValues), yi \in 1..Len(view.yValues) : Drop(xi, yi)
    \/ \E text \in InputTexts : ModalInput(text)
    \/ \E i \in 1..Len(modal.existingValues) : ChipClick(i)
    \/ ModalConfirm
    \/ ModalClose
    \/ \E hid \in 1..Len(handlers), ok \in BOOLEAN : VaultRead(hid, ok)
    \/ \E hid \in 1..Len(handlers), ok \in BOOLEAN : VaultModify(hid, ok)
    \/ \E hid \in 1..Len(handlers) : Register(hid)
    \/ \E d \in Docs : CacheChanged(d)
    \/ \E w \in 1..Len(watchers) : Timeout(w)

Spec == Init /\ [][Next]_vars

(* ------------------------- properties: query ------------------------- *)

\* The values a document holds for an axis property, one per element.
PresentValues(doc, key) ==
    LET v == doc.properties[key]
    IN  IF v.k \in {"undef", "null"} THEN <<>> ELSE IF v.k = "arr" THEN v.a ELSE <<v>>

Occurrences(vs, v) == Cardinality({i \in 1..Len(vs) : vs[i] = v})

\* How often v occurs in the multi-valued expansion of key over documents.
ExpansionCount(documents, key, v) ==
    Cardinality(UNION {{<<i, j>> : j \in {j \in 1..Len(PresentValues(documents[i], key)) :
                                           PresentValues(documents[i], key)[j] = v}}
                       : i \in 1..Len(documents)})

ExpansionSize(documents, key) ==
    Cardinality(UNION {{<<i, j>> : j \in 1..Len(PresentValues(documents[i], key))}
                       : i \in 1..Len(documents)})

RawsAreExpansion(raws, documents, key) ==
    /\ Len(raws) = ExpansionSize(documents, key)
    /\ \A i \in 1..Len(raws) : Occurrences(raws, raws[i]) = ExpansionCount(documents, key, raws[i])

BucketsAreLabels(labels, raws, transformFn) ==
    /\ {labels[i] : i \in 1..Len(labels)} = {applyTransform(raws[i], transformFn) : i \in 1..Len(raws)}
    /\ \A i, j \in 1..Len(labels) : labels[i] = labels[j] => i = j

Returned == view.kind # "none"

\* C7: in every QueryResult returned by execute, the raw values of each axis
\* are attached and are, as a multiset, the multi-valued expansion of the
\* axis's present values over result.documents, and the bucket set is the
\* set of the transformed labels of those raw values.
C7_RawsAndBucketsFromDocuments ==
    Returned =>
        /\ view.result.rawAttached
        /\ RawsAreExpansion(view.result.xAxisRawValues, view.result.documents, "X")
        /\ RawsAreExpansion(view.result.yAxisRawValues, view.result.documents, "Y")
        /\ BucketsAreLabels(view.result.xAxisValues, view.result.xAxisRawValues, view.xTransformFn)
        /\ BucketsAreLabels(view.result.yAxisValues, view.result.yAxisRawValues, view.yTransformFn)

\* The part of C7 the code keeps: it holds of every result whose pass was
\* not ended by a query error.
C7_HoldsWithoutQueryError ==
    (Returned /\ view.result.rawAttached) =>
        /\ RawsAreExpansion(view.result.xAxisRawValues, view.result.documents, "X")
        /\ RawsAreExpansion(view.result.yAxisRawValues, view.result.documents, "Y")
        /\ BucketsAreLabels(view.result.xAxisValues, view.result.xAxisRawValues, view.xTransformFn)
        /\ BucketsAreLabels(view.result.yAxisValues, view.result.yAxisRawValues, view.yTransformFn)

SequenceDocs(key) ==
    {i \in 1..Len(view.result.documents) : view.result.documents[i].properties[key].k = "arr"}

InSeq(vs, v) == \E i \in 1..Len(vs) : vs[i] = v

\* C8: for a document of the result whose X (Y) property is a sequence,
\* every element is in the raw-value list of a completed pass, every
\* element's transformed label is in the bucket set, and on the board the
\* document is in every cell whose X label is the label of some element and
\* whose Y label matches the document.
C8_SequenceOrSemantics ==
    Returned =>
        \A i \in SequenceDocs("X") :
            LET doc == view.result.documents[i]
                elems == doc.properties["X"].a
            IN  \A e \in 1..Len(elems) :
                    /\ view.result.rawAttached => InSeq(view.result.xAxisRawValues, elems[e])
                    /\ InSeq(view.result.xAxisValues, applyTransform(elems[e], view.xTransformFn))
                    /\ view.kind = "matrix" =>
                         \A xi \in 1..Len(view.xValues), yi \in 1..Len(view.yValues) :
                            ( /\ String(applyTransform(elems[e], view.xTransformFn)) = String(view.xValues[xi])
                              /\ AxisMatch(doc.properties["Y"], view.yValues[yi], view.yTransformFn) )
                            => InSeq(view.cells[xi][yi], doc.path)

\* C8 witness: a document with a sequence X sits in two columns of the board.
C8_Witness ==
    /\ view.kind = "matrix"
    /\ \E i \in SequenceDocs("X") :
          \E xi, xj \in 1..Len(view.xValues), yi \in 1..Len(view.yValues) :
             /\ xi # xj
             /\ InSeq(view.cells[xi][yi], view.result.documents[i].path)
             /\ InSeq(view.cells[xj][yi], view.result.documents[i].path)

\* C9: no two distinct members of a bucket set have the same string form.
C9_BucketsDistinctByString ==
    Returned =>
        /\ \A i, j \in 1..Len(view.result.xAxisValues) :
              String(view.result.xAxisValues[i]) = String(view.result.xAxisValues[j]) => i = j
        /\ \A i, j \in 1..Len(view.result.yAxisValues) :
              String(view.result.yAxisValues[i]) = String(view.result.yAxisValues[j]) => i = j

FirstIndex(vs, v) == CHOOSE i \in 1..Len(vs) : vs[i] = v /\ \A j \in 1..(i - 1) : vs[j] # v

\* What C10 says of a map m built from raws under transformFn.
IsReverseMapOf(m, raws, transformFn) ==
    /\ MapKeys(m) = {String(applyTransform(raws[i], transformFn)) : i \in 1..Len(raws)}
    /\ \A i, j \in 1..Len(m) : m[i].key = m[j].key => i = j
    /\ \A e \in 1..Len(m) :
          LET vals == m[e].vals
          IN  /\ \A i, j \in 1..Len(vals) : vals[i] = vals[j] => i = j
              /\ {vals[i] : i \in 1..Len(vals)} =
                 {raws[i] : i \in {i \in 1..Len(raws) :
                                    String(applyTransform(raws[i], transformFn)) = m[e].key}}
              /\ \A i, j \in 1..Len(vals) :
                    i < j => FirstIndex(raws, vals[i]) < FirstIndex(raws, vals[j])

\* C10: the reverse map built from the raw values of a result has exactly
\* the labels String(t(r)) as keys and maps each label to the duplicate-free
\* list, in first-seen order, of the raw values with that label.
C10_ReverseMap ==
    (Returned /\ view.result.rawAttached) =>
        /\ view.xTransformFn # NoFn =>
              IsReverseMapOf(view.xReverseMap, view.result.xAxisRawValues, view.xTransformFn)
        /\ view.yTransformFn # NoFn =>
              IsReverseMapOf(view.yReverseMap, view.result.yAxisRawValues, view.yTransformFn)

\* C10 witness: raw values [1, 2, 13, 14] under floor(v / 10) * 10 give
\* "0" -> [1, 2], "10" -> [13, 14].
C10_Witness ==
    /\ Returned
    /\ view.xTransformFn = "tens"
    /\ view.result.xAxisRawValues = <<Num(1), Num(2), Num(13), Num(14)>>
    /\ view.xReverseMap = << [key |-> <<"0">>, vals |-> <<Num(1), Num(2)>>],
                            [key |-> <<"1", "0">>, vals |-> <<Num(13), Num(14)>>] >>

\* The per-document stage of the query of the current view.
PerDocumentStage ==
    PerDocumentPass(getSourceFiles(config.source, cache), config, cache, view.xTransformFn, view.yTransformFn)

\* The result holds what the per-document stage produced, the documents in
\* the configured sort order.
ResultIsPerDocumentStage ==
    /\ view.result.documents = IF config.sort.by # ""
                               THEN sortDocuments(PerDocumentStage.documents, config.sort)
                               ELSE PerDocumentStage.documents
    /\ view.result.xAxisValues = PerDocumentStage.x.labels
    /\ view.result.yAxisValues = PerDocumentStage.y.labels
    /\ view.result.xAxisRawValues = PerDocumentStage.x.raws
    /\ view.result.yAxisRawValues = PerDocumentStage.y.raws

\* The whole-set filter of the returned result was called.
FilterCalled == Returned /\ view.result.rawAttached /\ config.filter # "none"

\* C11: when the whole-set filter throws, the result holds the documents,
\* bucket sets and raw values of the per-document stage and errors holds
\* exactly one message, the filter error.
C11_FilterThrowKeepsStage ==
    (FilterCalled /\ config.filter = "throws") =>
        /\ ResultIsPerDocumentStage
        /\ view.result.errors = <<"Filter error">>

\* C11 witness: the filter threw on a list of two documents.
C11_Witness ==
    /\ FilterCalled /\ config.filter = "throws"
    /\ Len(view.result.documents) = NumDocs
    /\ view.result.xAxisRawValues # <<>>
    /\ view.kind = "errors"

\* C12: when the whole-set filter returns something that is no array, the
\* result holds the documents, bucket sets and raw values of the
\* per-document stage and no error.
C12_NonArrayFilterIgnored ==
    (FilterCalled /\ config.filter = "count") =>
        /\ ResultIsPerDocumentStage
        /\ view.result.errors = <<>>

\* C12 witness: the filter returned a number for a list holding a document
\* that an array-returning filter would have dropped.
C12_Witness ==
    /\ FilterCalled /\ config.filter = "count"
    /\ \E i \in 1..Len(view.result.documents) : view.result.documents[i].properties["Y"].k = "undef"
    /\ view.kind = "matrix"

\* The query ran to its end without a whole-set filter.
WhereApplied == Returned /\ view.result.rawAttached /\ config.filter = "none" /\ config.where # NoWhere

\* The documents of the result, and the documents the query read.
ResultPaths == {view.result.documents[i].path : i \in 1..Len(view.result.documents)}

CachedDocs == {d \in Docs : cache[d].cached}

\* The value of property key of document d.
ValueOf(d, key) == getPropertyValue(getDocumentData(d, cache[d]).properties, key)

\* C13: with the filter P = "v" the result holds exactly the documents
\* whose stringified P is v, with P != "v" exactly the others, and with a
\* filter text of neither shape every document.
C13_EqualityFilter ==
    WhereApplied =>
        /\ config.where = EqualityFilter(<<"X">>, <<"=">>, One)
              => ResultPaths = {d \in CachedDocs : String(ValueOf(d, "X")) = One}
        /\ config.where = EqualityFilter(<<"X">>, <<"!", "=">>, One)
              => ResultPaths = {d \in CachedDocs : String(ValueOf(d, "X")) # One}
        /\ (~matchContains(config.where).matched /\ ~matchEquals(config.where).matched)
              => ResultPaths = CachedDocs

\* C13 witness: X != "1" dropped one of two documents, and the other document
\* holds a sequence.
C13_Witness ==
    /\ WhereApplied
    /\ config.where = EqualityFilter(<<"X">>, <<"!", "=">>, One)
    /\ CachedDocs = Docs
    /\ Len(view.result.documents) = 1
    /\ view.result.documents[1].properties["X"].k = "arr"

\* The filter text is P contains "s" for the property X.
IsContainsFilter(s) ==
    \E keyword \in {<<"c", "o", "n", "t", "a", "i", "n", "s">>, <<"C", "o", "n", "t", "a", "i", "n", "s">>} :
        config.where = ContainsFilter(<<"X">>, keyword, s)

\* The stringified value, or some stringified element of a sequence, contains s.
StringifiedContains(v, s) ==
    IF v.k = "arr" THEN \E i \in 1..Len(v.a) : StrIncludes(String(v.a[i]), s)
    ELSE StrIncludes(String(v), s)

\* C14: with the filter P contains "s" the result holds exactly the
\* documents whose stringified P, or some stringified element of a sequence
\* P, contains s.
C14_ContainsFilter ==
    \A s \in {One, <<"0">>} :
        (WhereApplied /\ IsContainsFilter(s))
            => ResultPaths = {d \in CachedDocs : StringifiedContains(ValueOf(d, "X"), s)}

\* The documents of the result, by path.
ResultDocs == [i \in 1..Len(view.result.documents) |-> view.result.documents[i].path]

\* The file names of a sequence of documents, in order.
FileNames(paths) == [i \in 1..Len(paths) |-> FileName(paths[i])]

\* C21: the lookup of file.name yields the file name for every document of
\* a result; an axis on file.name collects the file names of the result's
\* documents as its raw values, and the filter file.name = "d1" keeps
\* exactly the document of that name.
C21_FileKeyLookup ==
    Returned =>
        /\ \A i \in 1..Len(view.result.documents) :
              getPropertyValue(view.result.documents[i].properties, "file.name")
                  = FileName(view.result.documents[i].path)
        /\ (config.yAxis = "file.name" /\ view.result.rawAttached /\ config.sort = NoSort)
              => view.result.yAxisRawValues = FileNames(ResultDocs)
        /\ (WhereApplied /\ config.where = EqualityFilter(FileNameKey, <<"=">>, <<"d", "1">>))
              => ResultPaths = {d \in CachedDocs : FileName(d) = Str(<<"d", "1">>)}

\* The label the claim names for a raw value under a transform expression.
ExpectedLabel(expr, v) ==
    IF expr.paren /\ expr.evals = "fn" /\ ~Throws(expr.fn, v) THEN Call(expr.fn, v) ELSE v

\* The bucket set holds exactly the expected labels of the raw values.
LabelsAreExpected(labels, raws, expr) ==
    {labels[i] : i \in 1..Len(labels)} = {ExpectedLabel(expr, raws[i]) : i \in 1..Len(raws)}

\* The transform of the x-axis throws on the raw value v.
XTransformThrowsOn(v) ==
    config.xTransform.paren /\ config.xTransform.evals = "fn" /\ Throws(config.xTransform.fn, v)

\* C22: the bucket set of an axis holds, for every raw value, the
\* transform's result when the transform compiled and returns normally and
\* the raw value itself otherwise; a query in which no loader and no
\* whole-set filter failed ends with its raw values attached and no error,
\* whatever its transforms did.
C22_TransformFailureIsolated ==
    (Returned /\ view.result.rawAttached) =>
        /\ LabelsAreExpected(view.result.xAxisValues, view.result.xAxisRawValues, config.xTransform)
        /\ LabelsAreExpected(view.result.yAxisValues, view.result.yAxisRawValues, config.yTransform)
        /\ config.filter # "throws" => view.result.errors = <<>>

\* C22 witness: the transform threw on one raw value and gave a label for
\* another, and the board was rendered without an error.
C22_Witness ==
    /\ Returned /\ view.result.rawAttached /\ view.kind = "matrix"
    /\ view.result.errors = <<>>
    /\ \E i, j \in 1..Len(view.result.xAxisRawValues) :
          /\ XTransformThrowsOn(view.result.xAxisRawValues[i])
          /\ ~XTransformThrowsOn(view.result.xAxisRawValues[j])
          /\ ExpectedLabel(config.xTransform, view.result.xAxisRawValues[j]) # view.result.xAxisRawValues[j]
          /\ InSeq(view.result.xAxisValues, view.result.xAxisRawValues[i])

\* The per-document pass over the source files before the k-th.
PassBefore(k) ==
    PerDocumentPass(SubSeq(getSourceFiles(config.source, cache), 1, k - 1), config, cache,
                    view.xTransformFn, view.yTransformFn)

\* The result holds the documents, bucket sets and raw values of a pass.
ResultIsPass(pass) ==
    /\ view.result.documents = pass.documents
    /\ view.result.xAxisValues = pass.x.labels
    /\ view.result.yAxisValues = pass.y.labels
    /\ view.result.rawAttached
    /\ view.result.xAxisRawValues = pass.x.raws
    /\ view.result.yAxisRawValues = pass.y.raws

\* execute met a failure that ended its pass.
QueryFailed == Returned /\ InSeq(view.result.errors, "Query error")

\* C24: a result whose pass a failure ended holds exactly one message and
\* the documents, bucket sets and raw values of the documents processed
\* before the failure.
C24_PartialResultOnFailure ==
    QueryFailed =>
        /\ view.result.errors = <<"Query error">>
        /\ \E k \in 1..NumDocs : ResultIsPass(PassBefore(k))

\* The cells of the board that show the document d.
CellsOf(d) ==
    {c \in (1..Len(view.xValues)) \X (1..Len(view.yValues)) : InSeq(view.cells[c[1]][c[2]], d)}

\* C30: on the board every document of the result is in a cell or in the
\* section of the unassigned documents, and in that section exactly when no
\* cell shows it.
C30_CellsOrUnassigned ==
    view.kind = "matrix" =>
        \A i \in 1..Len(view.result.documents) :
            LET d == view.result.documents[i].path
            IN  InSeq(view.unassigned, d) <=> CellsOf(d) = {}

\* Apart from the documents with an empty axis value, a document is in
\* the section of the unassigned documents exactly when no cell shows it.
UnassignedWithoutCellUnlessEmpty ==
    view.kind = "matrix" =>
        \A i \in 1..Len(view.result.documents) :
            LET doc == view.result.documents[i]
            IN  \/ IsEmptyValue(getPropertyValue(doc.properties, config.xAxis))
                \/ IsEmptyValue(getPropertyValue(doc.properties, config.yAxis))
                \/ InSeq(view.unassigned, doc.path) <=> CellsOf(doc.path) = {}

(* ------------------------- properties: sort -------------------------- *)

\* The sort key of a document, and the place of a document in a sequence.
SortKeyOf(doc) == getPropertyValue(doc.properties, config.sort.by)

PlaceOf(documents, path) == CHOOSE i \in 1..Len(documents) : documents[i].path = path

IsPermutation(out, in) ==
    /\ Len(out) = Len(in)
    /\ \A i \in 1..Len(in) : \E j \in 1..Len(out) : out[j] = in[i]
    /\ \A i, j \in 1..Len(out) : out[i].path = out[j].path => i = j

\* No document stands before a document with a smaller (asc) or a larger
\* (desc) key.
InOrder(out) ==
    \A i, j \in 1..Len(out) :
        i < j => IF config.sort.order = "desc"
                 THEN ~JsLess(SortKeyOf(out[i]), SortKeyOf(out[j]))
                 ELSE ~JsLess(SortKeyOf(out[j]), SortKeyOf(out[i]))

\* Two keys are equal or incomparable: neither is less than the other.
Tied(a, b) == ~JsLess(a, b) /\ ~JsLess(b, a)

KeepsTiesInOrder(out, in) ==
    \A i, j \in 1..Len(in) :
        (i < j /\ Tied(SortKeyOf(in[i]), SortKeyOf(in[j])))
            => PlaceOf(out, in[i].path) < PlaceOf(out, in[j].path)

\* C23: the sorted documents are a permutation of the input with the keys
\* in the configured order, and documents with equal or incomparable keys
\* keep their input order.
C23_SortedStablePermutation ==
    view.kind = "sorted" =>
        /\ IsPermutation(view.result.documents, Collected)
        /\ InOrder(view.result.documents)
        /\ KeepsTiesInOrder(view.result.documents, Collected)

\* The keys of the input are pairwise comparable.
AllComparable == \A i \in 1..Len(Collected) : SortKeyOf(Collected[i]).k = "num"

\* What holds of every sort: a permutation in which input order is kept
\* by every pair but those strictly out of order, and which is in order
\* when the keys are pairwise comparable.
SortKeepsAllButStrictlyUnordered ==
    view.kind = "sorted" =>
        /\ IsPermutation(view.result.documents, Collected)
        /\ KeepsTiesInOrder(view.result.documents, Collected)
        /\ AllComparable => InOrder(view.result.documents)

(* ------------------------- properties: block ------------------------- *)

\* The code block was processed, and its configuration was accepted.
Processed == view.kind # "none"

Accepted == Processed /\ view.kind # "hermine-error"

\* The block ends with an x-values line, and the text of that line.
HasAxisText == block # <<>> /\ block[Len(block)].key = "x-values"

AxisText == block[Len(block)].value

\* The labels the configuration holds for the x-axis.
XLabels == [i \in 1..Len(config.xValues.values) |-> config.xValues.values[i].s]

\* The text of the block is the range from..to with the given step.
IsRange(from, to, step) ==
    /\ Accepted /\ HasAxisText
    /\ \/ AxisText = RangeText(from, to, step)
       \/ step = 1 /\ AxisText = PlainRangeText(from, to)

\* The i-th number counted from from toward to.
Toward(from, to, step, i) == IF from <= to THEN from + (i - 1) * step ELSE from - (i - 1) * step

Between(v, from, to) == IF from <= to THEN from <= v /\ v <= to ELSE to <= v /\ v <= from

\* The labels start at from and move by the step toward to.
StepsToward(from, to, step) ==
    /\ XLabels # <<>>
    /\ \A i \in 1..Len(XLabels) : XLabels[i] = NumToStr(Toward(from, to, step, i))

\* C15 as stated: a range with a positive step expands to labels that
\* start at from, move by the step toward to and hold both from and to.
C15_RangeHoldsBothEnds ==
    \A from \in RangeEnds, to \in RangeEnds, step \in 1..MaxStep :
        IsRange(from, to, step) =>
            /\ StepsToward(from, to, step)
            /\ \E i \in 1..Len(XLabels) : XLabels[i] = NumToStr(from)
            /\ \E i \in 1..Len(XLabels) : XLabels[i] = NumToStr(to)

\* C15: a range with a positive step expands to labels that start at from
\* and move by the step toward to as long as they do not pass to; the last
\* label is to exactly when the step divides the distance of the ends.
C15_RangeStepsTowardEnd ==
    \A from \in RangeEnds, to \in RangeEnds, step \in 1..MaxStep :
        IsRange(from, to, step) =>
            /\ StepsToward(from, to, step)
            /\ \A i \in 1..Len(XLabels) : Between(Toward(from, to, step, i), from, to)
            /\ ~Between(Toward(from, to, step, Len(XLabels) + 1), from, to)
            /\ (XLabels[Len(XLabels)] = NumToStr(to))
                  <=> ((IF from <= to THEN to - from ELSE from - to) % step = 0)

\* C15 witness: a descending range whose step does not divide the distance
\* of its ends.
C15_Witness ==
    /\ IsRange(MaxEnd, 0, MaxStep)
    /\ Len(XLabels) >= 2
    /\ XLabels[Len(XLabels)] # <<"0">>

\* C16: a range with a zero or negative step expands to the one label from.
C16_NonPositiveStepCollapses ==
    \A from \in RangeEnds, to \in RangeEnds, step \in (0 - 1)..0 :
        (Accepted /\ HasAxisText /\ AxisText = RangeText(from, to, step))
            => XLabels = <<NumToStr(from)>>

\* The keyword exact as it is written in the texts.
ExactKeywords == Keywords \ {Exakt}

\* C17: a text that holds the keyword exact, in any letter case, before or
\* after its values sets the exact flag and yields the values of the text
\* without the keyword; a text without the keyword leaves the flag unset.
C17_ExactKeywordStripped ==
    (Accepted /\ HasAxisText) =>
        /\ \A text \in PlainTexts, keyword \in ExactKeywords, place \in KeywordPlaces :
              AxisText = WithKeyword(text, keyword, place)
                  => /\ config.xExact
                     /\ config.xValues = GivenValues(parseAxisValues(text))
        /\ AxisText \in PlainTexts \cup RangeTexts => ~config.xExact

\* The block holds a line of one of the keys with a value.
HasValue(keys) == \E i \in 1..Len(block) : block[i].key \in keys /\ block[i].value # <<>>

HasSource == HasValue({"source", "from", "quelle"})

HasXAxis == HasValue({"x", "x-axis", "x-achse", "xaxis"})

HasYAxis == HasValue({"y", "y-axis", "y-achse", "yaxis"})

\* execute ran: its result carries raw values or an error.
Executed == view.result.rawAttached \/ view.result.errors # <<>>

C19_LiteralTokensSelectAll ==
    (Accepted /\ config.source \in {AllSource, <<"e", "v", "e", "r", "y">>, <<"*">>})
        => ResultPaths = Docs

\* Tag t selects for the query: equal without case, or below the query.
TagSelects(t, query) ==
    \/ toLowerCase(t) = toLowerCase(query)
    \/ StartsWith(toLowerCase(t), toLowerCase(query) \o <<"/">>)

\* C20: with a source that starts with #, the result holds exactly the
\* documents with a tag that equals the query without case or starts with
\* the query and "/"; a tag that only starts with the query selects nothing.
C20_TagQuery ==
    (Accepted /\ StartsWith(config.source, <<"#">>))
        => ResultPaths = {d \in Docs : \E i \in 1..Len(cache[d].tags) :
                                          TagSelects(cache[d].tags[i], config.source)}

\* C20 witness: the query #p selected the document tagged #P/a and not the
\* document tagged #pp.
C20_Witness ==
    /\ Accepted /\ config.source = <<"#", "p">>
    /\ \E d \in Docs : d \in ResultPaths /\ cache[d].tags = <<<<"#", "P", "/", "a">>>>
    /\ \E d \in Docs : d \notin ResultPaths /\ cache[d].tags = <<<<"#", "q">>, <<"#", "p", "p">>>>

(* ------------------------- properties: modal ------------------------- *)

\* The current input of the modal is a validated one.
InputValidated ==
    IF modal.kind = "exact"
    THEN /\ ParseFloat(modal.input).k = "num"
         /\ modal.rangeMin <= ParseFloat(modal.input).n
         /\ ParseFloat(modal.input).n <= modal.rangeMax
    ELSE /\ Trim(modal.input) # <<>>
         /\ String(applyTransform(parseInputValue(Trim(modal.input)), modal.transformFn)) = modal.groupLabel

\* C28: onChoose is not called while a modal is open and has been called
\* exactly once when it is closed: with the value of the validated input
\* when confirm closed it, with null when anything else closed it.
C28_OnChooseExactlyOnce ==
    /\ modal.open => modal.chosen = <<>> /\ modal.closedBy = ""
    /\ ~modal.open =>
          /\ Len(modal.chosen) = 1
          /\ modal.closedBy \in {"confirm", "close"}
          /\ modal.closedBy = "close" => modal.chosen[1] = Null
          /\ modal.closedBy = "confirm" =>
                /\ InputValidated
                /\ modal.chosen[1] = ChosenValue(modal)
                /\ modal.chosen[1].k \in {"num", "str"}
          /\ modal.chosen[1] # Null => modal.closedBy = "confirm"

\* C28 witness: the exact modal was closed by confirm with a number of its
\* range that is not the cell value it opened with.
C28_Witness ==
    /\ ~modal.open /\ modal.kind = "exact" /\ modal.closedBy = "confirm"
    /\ modal.rangeMin = 0 /\ modal.rangeMax = MaxRange
    /\ modal.chosen = <<Num(MaxRange)>>

(* -------------------------- properties: drop ------------------------- *)

HasUpdate(updates, key) == \E i \in 1..Len(updates) : updates[i].key = key

GetUpdate(updates, key) == updates[CHOOSE i \in 1..Len(updates) : updates[i].key = key].value

\* The handler has resolved its axes and is in updateProperties or just
\* behind it.
Writing(h) == h.pc \in {"read", "modify", "modified"}

Running == {hid \in 1..Len(handlers) : handlers[hid].pc # "done"}

MapsTo(value, transformFn, label) == String(applyTransform(value, transformFn)) = String(label)

\* The value the handler holds for the X axis is the one resolved for X:
\* with both axes on one property the Y resolution replaces it.
HoldsXValue(h) ==
    /\ ~config.xReadonly
    /\ \/ h.pc = "awaitY"
       \/ Writing(h) /\ (config.yReadonly \/ config.yAxis # config.xAxis)

HoldsYValue(h) == ~config.yReadonly /\ Writing(h)

\* The step is the successful end of the vault.modify of handler hid.
WriteStep(hid) == handlers[hid].pc = "modify" /\ handlers'[hid].pc = "modified"

\* A successful write stores every value of the handler's updates.
WritesUpdates(hid) ==
    LET h == handlers[hid]
    IN  \A i \in 1..Len(h.updates) : vault'[h.doc][h.updates[i].key].val = h.updates[i].value

\* C1: on an axis with an active transform, the confirm button is enabled
\* only for an input whose parsed value maps to the target label, every
\* value a handler has accepted for the axis maps to the label of the cell
\* it was dropped on, and these are the values a successful write stores.
C1_AcceptedValueMapsToLabel ==
    /\ [](/\ (modal.open /\ ~modal.confirmDisabled) =>
                String(applyTransform(parseInputValue(Trim(modal.input)), modal.transformFn))
                    = modal.groupLabel
          /\ \A hid \in Running :
                LET h == handlers[hid]
                IN  /\ (HoldsXValue(h) /\ XFn # NoFn) =>
                          MapsTo(GetUpdate(h.updates, config.xAxis), XFn, h.xVal)
                    /\ (HoldsYValue(h) /\ YFn # NoFn) =>
                          MapsTo(GetUpdate(h.updates, config.yAxis), YFn, h.yVal))
    /\ [][\A hid \in 1..Len(handlers) : WriteStep(hid) => WritesUpdates(hid)]_vars

\* A value typed as text ("01") has been accepted for the X axis under an
\* active transform and written.
C1_Witness ==
    /\ XFn # NoFn
    /\ \E hid \in Running :
          /\ handlers[hid].pc = "modified"
          /\ HoldsXValue(handlers[hid])
          /\ GetUpdate(handlers[hid].updates, config.xAxis) = Str(<<"0", "1">>)
          /\ vault[handlers[hid].doc][config.xAxis].val = Str(<<"0", "1">>)

\* The property names a drop writes: those of the axes that are not readonly.
WriteSet == (IF config.xReadonly THEN {} ELSE {config.xAxis})
            \cup (IF config.yReadonly THEN {} ELSE {config.yAxis})

UpdateKeys(updates) == {updates[i].key : i \in 1..Len(updates)}

\* An ended handler does nothing more.
EndedStaysEnded ==
    \A hid \in 1..Len(handlers) : handlers[hid].pc = "done" => handlers'[hid] = handlers[hid]

\* The vault changes only in the successful vault.modify of a handler.
OnlyWriteStepsWrite == vault' # vault => \E hid \in 1..Len(handlers) : WriteStep(hid)

\* C2: a drop is all-or-nothing: a cancelled handler has neither read nor
\* modified the file and never will, whatever it had resolved before; a
\* handler that goes on to write holds a value for every axis that is not
\* readonly; the file changes only in one vault.modify holding them all.
C2_DropAllOrNothing ==
    /\ [](\A hid \in 1..Len(handlers) :
             LET h == handlers[hid]
             IN  /\ h.outcome = "cancelled" => h.pc = "done" /\ h.reads = 0 /\ h.modifies = 0
                 /\ h.pc \in {"awaitX", "awaitY"} => h.reads = 0 /\ h.modifies = 0
                 /\ Writing(h) => UpdateKeys(h.updates) = WriteSet)
    /\ [][EndedStaysEnded /\ OnlyWriteStepsWrite]_vars

\* The X axis was resolved, the Y axis was then cancelled, and the file
\* still holds what it held.
C2_Witness ==
    \E hid \in 1..Len(handlers) :
        /\ handlers[hid].outcome = "cancelled"
        /\ HasUpdate(handlers[hid].updates, config.xAxis)
        /\ config.yAxis # config.xAxis
        /\ vault = DropVault

\* Whether the axis ("x" or "y") is readonly.
Readonly(axis) == IF axis = "x" THEN config.xReadonly ELSE config.yReadonly

C4_NoTransformWritesLabel ==
    /\ modal.open => modal.transformFn # NoFn
    /\ \A hid \in Running :
          LET h == handlers[hid]
          IN  /\ h.pc = "awaitX" => XFn # NoFn
              /\ h.pc = "awaitY" => YFn # NoFn
              /\ (HoldsXValue(h) /\ XFn = NoFn) => GetUpdate(h.updates, config.xAxis) = h.xVal
              /\ (HoldsYValue(h) /\ YFn = NoFn) => GetUpdate(h.updates, config.yAxis) = h.yVal

\* The X transform failed to compile, and a drop has written the label of
\* its cell as the X property.
C4_Witness ==
    /\ config.xTransform = ExprSyntax
    /\ \E hid \in Running :
          LET h == handlers[hid]
          IN  /\ h.pc = "modified"
              /\ HoldsXValue(h)
              /\ GetUpdate(h.updates, config.xAxis) = h.xVal
              /\ vault[h.doc][config.xAxis].val = h.xVal
              /\ vault[h.doc] # DropVault[h.doc]

\* The number a range label stands for.
LabelNumber(label) == ParseFloat(String(label))

\* The value lies in the bucket of the label: a number from the label's
\* number up to the number of the next label of the domain.
InBucketOf(value, label, domain) ==
    /\ value.k = "num"
    /\ LabelNumber(label).n <= value.n
    /\ \A i \in 1..Len(domain) :
          LabelNumber(domain[i]).n > LabelNumber(label).n => value.n <= LabelNumber(domain[i]).n

\* C25: the value a handler holds for an axis whose exact flag is set is a
\* number within the bucket of the cell it was dropped on.
C25_ExactDropWritesNumberInBucket ==
    \A hid \in Running :
        LET h == handlers[hid]
        IN  /\ (config.xExact /\ HoldsXValue(h))
                  => InBucketOf(GetUpdate(h.updates, config.xAxis), h.xVal, view.xValues)
            /\ (config.yExact /\ HoldsYValue(h))
                  => InBucketOf(GetUpdate(h.updates, config.yAxis), h.yVal, view.yValues)

\* C26: the reverse maps of the current renderer are the maps onload built
\* from the raw values of its result: each label's list holds the raw
\* values of the label in first-seen order, whatever drops were resolved.
C26_ReverseMapUnchangedByDrops ==
    (view.kind # "none" /\ view.result.rawAttached) =>
        /\ XFn # NoFn => view.xReverseMap = buildReverseMap(view.result.xAxisRawValues, XFn)
        /\ YFn # NoFn => view.yReverseMap = buildReverseMap(view.result.yAxisRawValues, YFn)

\* The handlers suspended in a resolution, waiting for the modal.
Awaiting == {hid \in 1..Len(handlers) : handlers[hid].pc \in {"awaitX", "awaitY"}}

\* The step calls updateProperties in the handler hid.
StartsWrite(hid) ==
    /\ hid \in 1..Len(handlers')
    /\ handlers'[hid].pc = "read"
    /\ hid > Len(handlers) \/ handlers[hid].pc # "read"

\* While the handler hid stays suspended, no drop handler is started and
\* no other handler calls updateProperties.
NothingStartsBeside(hid) ==
    (hid \in Awaiting /\ handlers'[hid].pc \in {"awaitX", "awaitY"}) =>
        /\ Len(handlers') = Len(handlers)
        /\ \A other \in 1..Len(handlers') : other # hid => ~StartsWrite(other)

ViewAfterWrite(d) ==
    onload(config, execute(config, [cache EXCEPT ![d].frontmatter = ParseFrontmatter(vault'[d])], 0))

\* The store returns the values the handler h wrote.
ReturnsWritten(h) ==
    \A i \in 1..Len(h.updates) :
        ParseFrontmatter(vault'[h.doc])[h.updates[i].key] = h.updates[i].value

\* The value of the document d on an axis in the renderer v.
AxisValueIn(v, d, axis) ==
    LET i == CHOOSE i \in 1..Len(v.result.documents) : v.result.documents[i].path = d
    IN  getPropertyValue(v.result.documents[i].properties, axis)

\* In the renderer v the document d matches the label on the axis and no
\* label of the axis of another string form.
OnLabelOnly(raw, label, labels, transformFn) ==
    /\ AxisMatch(raw, label, transformFn)
    /\ \A i \in 1..Len(labels) :
          String(labels[i]) # String(label) => ~AxisMatch(raw, labels[i], transformFn)

\* In the renderer v the document d is in a cell of the labels (xVal, yVal).
InCell(v, d, xVal, yVal) ==
    \E xi \in 1..Len(v.xValues), yi \in 1..Len(v.yValues) :
        /\ String(v.xValues[xi]) = String(xVal)
        /\ String(v.yValues[yi]) = String(yVal)
        /\ InSeq(v.cells[xi][yi], d)

\* The handler h wrote the document into its cell: after the refresh the
\* document is in the cell, and on each axis that is not readonly on the
\* label of the cell only.
RoundTrip(h) ==
    \E v \in {ViewAfterWrite(h.doc)} :
        /\ v.kind = "matrix"
        /\ InCell(v, h.doc, h.xVal, h.yVal)
        /\ ~config.xReadonly =>
              OnLabelOnly(AxisValueIn(v, h.doc, config.xAxis), h.xVal, v.xValues, v.xTransformFn)
        /\ ~config.yReadonly =>
              OnLabelOnly(AxisValueIn(v, h.doc, config.yAxis), h.yVal, v.yValues, v.yTransformFn)

Changed == dirty \ dirty'

\* The watchers whose refresh is triggered in the step.
Triggered == {w \in 1..Len(watchers) : watchers'[w].refreshes > watchers[w].refreshes}

\* The handlers that call refreshOnCacheUpdate in the step.
Registering == {hid \in 1..Len(handlers) : handlers[hid].pc = "modified" /\ handlers'[hid].pc = "done"}

RefreshSteps ==
    /\ \A w \in 1..Len(watchers) :
          /\ (watchers[w].listening /\ watchers[w].path \in Changed) =>
                watchers'[w].refreshes = 1 /\ watchers'[w].by = "changed"
          /\ (watchers[w].path \notin Changed /\ watchers'[w] # watchers[w]) =>
                watchers'[w].refreshes = 1 /\ watchers'[w].by = "timeout"
    /\ Len(watchers') = Len(watchers) + Cardinality(Registering)
    /\ \A hid \in Registering :
          watchers'[Len(watchers')] = [path |-> handlers[hid].doc, listening |-> TRUE,
                                       timer |-> MaxWait, refreshes |-> 0, by |-> ""]
    /\ Triggered # {} => view' = onload(config, execute(config, cache', 0))
    /\ (Triggered = {} /\ view.kind # "none") => view'.result = view.result

\* C5: each successful write registers one watcher for the written
\* document; a watcher triggers the refresh exactly once, at the first
\* "changed" event for its document while it listens or else at its
\* timeout, and events for other documents leave it alone; until it has
\* triggered the refresh its timer stays set, so the refresh comes even
\* when no event does.
C5_RefreshExactlyOnce ==
    /\ [](\A w \in 1..Len(watchers) :
             /\ watchers[w].refreshes <= 1
             /\ watchers[w].listening <=> watchers[w].timer > 0
             /\ watchers[w].listening <=> watchers[w].refreshes = 0)
    /\ [][RefreshSteps]_vars

\* The "changed" event came before the listener was registered: the
\* refresh was triggered by the timeout, with no event outstanding.
C5_Witness ==
    \E w \in 1..Len(watchers) :
        /\ watchers[w].refreshes = 1
        /\ watchers[w].by = "timeout"
        /\ watchers[w].path \notin dirty
        /\ cache[watchers[w].path].frontmatter = ParseFrontmatter(vault[watchers[w].path])
        /\ vault # DropVault

\* The step in which the handler hid ends in the catch block.
FailStep(hid) == handlers[hid].outcome # "failed" /\ handlers'[hid].outcome = "failed"

\* The step ends a store operation of the handler hid without success.
StoreFailed(hid) ==
    \/ handlers[hid].pc = "read" /\ handlers'[hid].pc \notin {"read", "modify"}
    \/ handlers[hid].pc = "modify" /\ handlers'[hid].pc \notin {"modify", "modified"}

\* C6: a failed read or modify ends the handler in its catch block, in a
\* step that changes neither the file nor the cache, registers no watcher
\* and refreshes nothing; no handler reads or modifies twice, and an ended
\* handler does nothing more.
C6_StoreFailureLeavesDocument ==
    /\ [](\A hid \in 1..Len(handlers) :
             /\ handlers[hid].reads <= 1
             /\ handlers[hid].modifies <= 1
             /\ handlers[hid].outcome = "failed" => handlers[hid].pc = "done")
    /\ [][/\ \A hid \in 1..Len(handlers) :
                /\ StoreFailed(hid) => FailStep(hid)
                /\ FailStep(hid) => /\ StoreFailed(hid)
                                    /\ UNCHANGED <<vault, cache, dirty, watchers, view>>
          /\ \A hid \in 1..Len(handlers) :
                handlers[hid].pc = "done" => handlers'[hid].pc = "done"]_vars

\* The modify of a drop failed and the vault is what it was.
C6_Witness ==
    \E hid \in 1..Len(handlers) :
        /\ handlers[hid].outcome = "failed"
        /\ handlers[hid].modifies = 1
        /\ vault = DropVault
        /\ watchers = <<>>

====
